---------------------------- MODULE Spec2Model ----------------------------
(***************************************************************************)
(* Verification model of the Eclipse HCI client library.                   *)
(*                                                                         *)
(* Two client implementations live in the repository:                      *)
(*   - the message client  (src/unnamed/part_010, class EclipseHCI with    *)
(*     handleMessage / addToQueue / processQueue), and                     *)
(*   - the token client    (src/unnamed/part_001, class EclipseHCI with    *)
(*     handleData / enqueue / drain and a session token).                  *)
(* Fields of the token client that clash with the message client's carry   *)
(* a leading "t" (tBuffer, tSocket).                                       *)
(*                                                                         *)
(* Bytes are integers 0..255; a Buffer is a sequence of bytes.             *)
(***************************************************************************)
EXTENDS Integers, Sequences, FiniteSets, TLC

VARIABLES
    client,            \* which client the application has constructed:
                       \* "message" (part_010) or "token" (part_001)
    \* ---- the peer's byte stream (environment) ----
    stream,            \* the bytes the peer sends on this connection
    pos,               \* how many of them have been handed to a 'data' event
    nChunks,           \* number of 'data' events so far
    \* ---- message client (part_010) ----
    net,               \* the net.Socket made by tryConnect: "connecting", "open", "closed"
    socket,            \* this.socket is non-null
    connected,         \* this.connected
    buffer,            \* this.buffer
    pc,                \* position of handleMessage: "idle" or "loop" (inside the while)
    iters,             \* iterations of the while loop executed in the current call
    outcome,           \* what the last iteration did
    prev,              \* the buffer as the last iteration found it
    delivered,         \* every Buffer passed to ProcessResponse.processMessage, in order
    parsed,            \* what processMessage made of each of them, in order
    messageQueue,      \* this.messageQueue: envelopes [id, Urgent]
    queueProcessor,    \* this.queueProcessor is non-null (the interval timer runs)
    isProcessingQueue, \* this.isProcessingQueue
    untilTick,         \* time left until the interval timer fires next
    sinceWrite,        \* time since the last socket.write, capped at RateLimitMs
    nextId,            \* identity of the next envelope handed to addToQueue
    enqueuedAt,        \* per envelope id: number of writes done when it was queued
    writes,            \* the envelopes written to the socket, in order
    \* ---- token client (part_001) ----
    tNet,              \* the net.Socket of connect(): "connecting", "open",
                       \* "destroyed" (close event pending), "closed"
    tSocket,           \* this.socket is non-null
    state,             \* this.state
    sessionToken,      \* this.sessionToken
    reconnect,         \* this.opts.reconnect
    reconnectTimer,    \* this.reconnectTimer: "null", "armed", "cleared"
                       \* (clearTimeout was called, the field still holds the handle)
    queue,             \* this.queue
    timer,             \* this.timer is non-null
    processing,        \* this.processing
    tBuffer,           \* this.buffer
    tpc,               \* position of handleData: "idle" or "loop"
    tIters,            \* iterations of its while loop in the current call
    tOutcome,          \* what the last iteration did
    tPrev,             \* the buffer as the last iteration found it
    events,            \* what handlePacket emitted, in order
    crashed,           \* an exception escaped a socket callback
    tWrites,           \* the requests written to the socket by drain, in order
    nCommands,         \* sendCommand calls so far
    nConnects,         \* connect events so far
    connectedAt,       \* number of writes before the last connect event
    \* ---- request objects (HCIRequest and its subclasses) ----
    request,           \* the request object, of type "none" before it is constructed
    call,              \* the last constructor or method call, with its argument
    threw,             \* the last call threw
    returned           \* what the last call returned (<< >> if nothing)

envVars == <<stream, pos, nChunks>>
rxVars == <<buffer, pc, iters, outcome, prev, delivered, parsed>>
connVars == <<net, socket, connected>>
timerVars == <<queueProcessor, untilTick>>
queueVars == <<messageQueue, isProcessingQueue, sinceWrite, nextId, enqueuedAt, writes>>
msgVars == <<rxVars, connVars, timerVars, queueVars>>
tConnVars == <<tNet, tSocket, state, sessionToken, reconnect, reconnectTimer, nConnects,
              connectedAt>>
tQueueVars == <<queue, timer, processing, tWrites, nCommands>>
tRxVars == <<tBuffer, tpc, tIters, tOutcome, tPrev, events, crashed>>
tokVars == <<tConnVars, tQueueVars, tRxVars>>
codecVars == <<request, call, threw, returned>>
vars == <<client, envVars, msgVars, tokVars, codecVars>>

-----------------------------------------------------------------------------
(* Bounds of the model *)

\* number of segments (frames, corrupt candidates, junk) a peer stream is made of
MaxSegs == 2

\* the rate limit (constructor argument rateLimitMs), in model time units
RateLimitMs == 2

\* number of envelopes handed to addToQueue in one run
MaxEnvelopes == 3

\* number of connections the token client is seen to establish
MaxConnects == 2

\* the loop counter of handleData stops counting here
MaxIters == 8

\* longest Data of a request
MaxData == 2

\* longest list of ports given to a constructor or to setPorts
MaxPorts == 2

\* most actions of a RequestConferenceActions
MaxActions == 2

\* most entries of a crosspoint level list
MaxEntries == 2

-----------------------------------------------------------------------------
(* Buffer primitives (Node's Buffer) *)

Min(a, b) == IF a < b THEN a ELSE b

Max(a, b) == IF a > b THEN a ELSE b

\* Buffer.subarray(start, end): negative indices count from the end, both are
\* clamped to [0, length], an empty range gives an empty buffer
Subarray(buf, start, end) ==
    LET norm(i) == IF i < 0 THEN Max(Len(buf) + i, 0) ELSE Min(i, Len(buf))
        s == norm(start)
        e == norm(end)
    IN  IF e <= s THEN << >> ELSE SubSeq(buf, s + 1, e)

\* Buffer.subarray(start)
SubarrayFrom(buf, start) == Subarray(buf, start, Len(buf))

\* Buffer.indexOf(pattern): offset of the first occurrence, -1 if none
IndexOf(buf, pat) ==
    LET hits == {i \in 0..(Len(buf) - Len(pat)) :
                    SubSeq(buf, i + 1, i + Len(pat)) = pat}
    IN  IF hits = {} THEN -1 ELSE CHOOSE i \in hits : \A j \in hits : i <= j

\* Buffer.readUInt16BE(offset)
ReadUInt16BE(buf, off) == buf[off + 1] * 256 + buf[off + 2]

\* Buffer.writeUInt16BE(value) as the two bytes written
UInt16BE(v) == << (v \div 256) % 256, v % 256 >>

StartBytes == << 90, 15 >>     \* 5A 0F

EndBytes == << 46, 141 >>      \* 2E 8D

V2Signature == << 171, 186, 206, 222 >>   \* AB BA CE DE

-----------------------------------------------------------------------------
(* ProcessResponse.processMessage: the header parser *)

\* The result of one call: kind is
\*   "lengthMismatch" / "tooShort"  the two early returns,
\*   "noPayload"                    header decoded, payload region empty, return,
\*   "handled"                      HCIResponse.handleMessageByID was called.
\* protocolVersion -1 stands for null.
ProcessMessageKeepsVersionByte(message) ==
    LET lengthField == ReadUInt16BE(message, 2)
        messageID == ReadUInt16BE(message, 4)
        flagsByte == message[7]
        isV2 == /\ Len(message) >= 7 + 4
                /\ Subarray(message, 7, 11) = V2Signature
        payloadStart == IF isV2 THEN 11 ELSE 7
        payloadEnd == Len(message) - 2
        header == [messageID |-> messageID, flagsByte |-> flagsByte,
                   hciVersion |-> IF isV2 THEN "HCIv2" ELSE "HCIv1",
                   protocolVersion |-> -1]
    IN  IF lengthField # Len(message)
        THEN [kind |-> "lengthMismatch", messageID |-> -1, flagsByte |-> -1,
              hciVersion |-> "none", protocolVersion |-> -1, payload |-> << >>]
        ELSE IF Len(message) < 7
        THEN [kind |-> "tooShort", messageID |-> -1, flagsByte |-> -1,
              hciVersion |-> "none", protocolVersion |-> -1, payload |-> << >>]
        ELSE IF payloadEnd <= payloadStart
        THEN [kind |-> "noPayload", payload |-> << >>] @@ header
        ELSE [kind |-> "handled",
              payload |-> Subarray(message, payloadStart, payloadEnd)] @@ header

ProcessMessage(message) ==
    LET lengthField == ReadUInt16BE(message, 2)
        messageID == ReadUInt16BE(message, 4)
        flagsByte == message[7]
        isV2 == /\ Len(message) >= 7 + 4
                /\ Subarray(message, 7, 11) = V2Signature
        hasProto == isV2 /\ Len(message) >= 11 + 1
        payloadStart == IF isV2 THEN (IF hasProto THEN 12 ELSE 11) ELSE 7
        payloadEnd == Len(message) - 2
        header == [messageID |-> messageID, flagsByte |-> flagsByte,
                   hciVersion |-> IF isV2 THEN "HCIv2" ELSE "HCIv1",
                   protocolVersion |-> IF hasProto THEN message[12] ELSE -1]
    IN  IF lengthField # Len(message)
        THEN [kind |-> "lengthMismatch", messageID |-> -1, flagsByte |-> -1,
              hciVersion |-> "none", protocolVersion |-> -1, payload |-> << >>]
        ELSE IF Len(message) < 7
        THEN [kind |-> "tooShort", messageID |-> -1, flagsByte |-> -1,
              hciVersion |-> "none", protocolVersion |-> -1, payload |-> << >>]
        ELSE IF payloadEnd <= payloadStart
        THEN [kind |-> "noPayload", payload |-> << >>] @@ header
        ELSE [kind |-> "handled",
              payload |-> Subarray(message, payloadStart, payloadEnd)] @@ header

-----------------------------------------------------------------------------
(* EclipseHCI.handleMessage (message client): one pass through the body of  *)
(* its while loop, on a non-empty buffer.  The result names the new buffer, *)
(* the message passed to processMessage (none: << >>, else <<message>>) and *)
(* what happened:                                                           *)
(*   "noStart"     break: no start bytes in the buffer (buffer kept)        *)
(*   "short"       break: fewer than 4 bytes after resynchronising          *)
(*   "incomplete"  break: fewer bytes than the length field says            *)
(*   "badEnd"      continue: end bytes wrong, the start bytes are dropped   *)
(*   "message"     a complete message was processed and removed             *)
(***************************************************************************)
Breaks == {"noStart", "short", "incomplete"}

\* as HandleMessageIter, but a buffer without start bytes is thrown away
HandleMessageIterDiscardsNoStart(buf) ==
    LET startIndex == IndexOf(buf, StartBytes)
        b1 == IF startIndex > 0 THEN SubarrayFrom(buf, startIndex) ELSE buf
        lengthField == ReadUInt16BE(b1, 2)
        completeMessage == Subarray(b1, 0, lengthField)
        actualEndBytes == SubarrayFrom(completeMessage, lengthField - 2)
    IN  IF startIndex = -1
        THEN [buffer |-> << >>, message |-> << >>, outcome |-> "noStart"]
        ELSE IF Len(b1) < 2 + 2
        THEN [buffer |-> b1, message |-> << >>, outcome |-> "short"]
        ELSE IF Len(b1) < lengthField
        THEN [buffer |-> b1, message |-> << >>, outcome |-> "incomplete"]
        ELSE IF actualEndBytes # EndBytes
        THEN [buffer |-> SubarrayFrom(b1, 2), message |-> << >>,
              outcome |-> "badEnd"]
        ELSE [buffer |-> SubarrayFrom(b1, lengthField),
              message |-> << completeMessage >>, outcome |-> "message"]

\* as HandleMessageIter, but wrong end bytes drop the whole candidate
HandleMessageIterDropsCandidate(buf) ==
    LET startIndex == IndexOf(buf, StartBytes)
        b1 == IF startIndex > 0 THEN SubarrayFrom(buf, startIndex) ELSE buf
        lengthField == ReadUInt16BE(b1, 2)
        completeMessage == Subarray(b1, 0, lengthField)
        actualEndBytes == SubarrayFrom(completeMessage, lengthField - 2)
    IN  IF startIndex = -1
        THEN [buffer |-> buf, message |-> << >>, outcome |-> "noStart"]
        ELSE IF Len(b1) < 2 + 2
        THEN [buffer |-> b1, message |-> << >>, outcome |-> "short"]
        ELSE IF Len(b1) < lengthField
        THEN [buffer |-> b1, message |-> << >>, outcome |-> "incomplete"]
        ELSE IF actualEndBytes # EndBytes
        THEN [buffer |-> SubarrayFrom(b1, Max(lengthField, 2)), message |-> << >>,
              outcome |-> "badEnd"]
        ELSE [buffer |-> SubarrayFrom(b1, lengthField),
              message |-> << completeMessage >>, outcome |-> "message"]

\* as HandleMessageIter, but wrong end bytes consume nothing before the rescan
HandleMessageIterKeepsOnBadEnd(buf) ==
    LET startIndex == IndexOf(buf, StartBytes)
        b1 == IF startIndex > 0 THEN SubarrayFrom(buf, startIndex) ELSE buf
        lengthField == ReadUInt16BE(b1, 2)
        completeMessage == Subarray(b1, 0, lengthField)
        actualEndBytes == SubarrayFrom(completeMessage, lengthField - 2)
    IN  IF startIndex = -1
        THEN [buffer |-> buf, message |-> << >>, outcome |-> "noStart"]
        ELSE IF Len(b1) < 2 + 2
        THEN [buffer |-> b1, message |-> << >>, outcome |-> "short"]
        ELSE IF Len(b1) < lengthField
        THEN [buffer |-> b1, message |-> << >>, outcome |-> "incomplete"]
        ELSE IF actualEndBytes # EndBytes
        THEN [buffer |-> b1, message |-> << >>, outcome |-> "badEnd"]
        ELSE [buffer |-> SubarrayFrom(b1, lengthField),
              message |-> << completeMessage >>, outcome |-> "message"]

\* as HandleMessageIter, but without waiting for the bytes the length field asks for
HandleMessageIterNoLengthWait(buf) ==
    LET startIndex == IndexOf(buf, StartBytes)
        b1 == IF startIndex > 0 THEN SubarrayFrom(buf, startIndex) ELSE buf
        lengthField == ReadUInt16BE(b1, 2)
        completeMessage == Subarray(b1, 0, lengthField)
        actualEndBytes == SubarrayFrom(completeMessage, Len(completeMessage) - 2)
    IN  IF startIndex = -1
        THEN [buffer |-> buf, message |-> << >>, outcome |-> "noStart"]
        ELSE IF Len(b1) < 2 + 2
        THEN [buffer |-> b1, message |-> << >>, outcome |-> "short"]
        ELSE IF actualEndBytes # EndBytes
        THEN [buffer |-> SubarrayFrom(b1, 2), message |-> << >>,
              outcome |-> "badEnd"]
        ELSE [buffer |-> SubarrayFrom(b1, lengthField),
              message |-> << completeMessage >>, outcome |-> "message"]

\* as HandleMessageIter, but a processed message is removed only up to its end bytes
HandleMessageIterLeavesEndBytes(buf) ==
    LET startIndex == IndexOf(buf, StartBytes)
        b1 == IF startIndex > 0 THEN SubarrayFrom(buf, startIndex) ELSE buf
        lengthField == ReadUInt16BE(b1, 2)
        completeMessage == Subarray(b1, 0, lengthField)
        expectedEndStart == lengthField - 2
        actualEndBytes == SubarrayFrom(completeMessage, expectedEndStart)
    IN  IF startIndex = -1
        THEN [buffer |-> buf, message |-> << >>, outcome |-> "noStart"]
        ELSE IF Len(b1) < 2 + 2
        THEN [buffer |-> b1, message |-> << >>, outcome |-> "short"]
        ELSE IF Len(b1) < lengthField
        THEN [buffer |-> b1, message |-> << >>, outcome |-> "incomplete"]
        ELSE IF actualEndBytes # EndBytes
        THEN [buffer |-> SubarrayFrom(b1, 2), message |-> << >>,
              outcome |-> "badEnd"]
        ELSE [buffer |-> SubarrayFrom(b1, expectedEndStart),
              message |-> << completeMessage >>, outcome |-> "message"]

HandleMessageIter(buf) ==
    LET startIndex == IndexOf(buf, StartBytes)
        b1 == IF startIndex > 0 THEN SubarrayFrom(buf, startIndex) ELSE buf
        lengthField == ReadUInt16BE(b1, 2)
        completeMessage == Subarray(b1, 0, lengthField)
        expectedEndStart == lengthField - 2
        actualEndBytes == SubarrayFrom(completeMessage, expectedEndStart)
    IN  IF startIndex = -1
        THEN [buffer |-> buf, message |-> << >>, outcome |-> "noStart"]
        ELSE IF Len(b1) < 2 + 2
        THEN [buffer |-> b1, message |-> << >>, outcome |-> "short"]
        ELSE IF Len(b1) < lengthField
        THEN [buffer |-> b1, message |-> << >>, outcome |-> "incomplete"]
        ELSE IF actualEndBytes # EndBytes
        THEN [buffer |-> SubarrayFrom(b1, 2), message |-> << >>,
              outcome |-> "badEnd"]
        ELSE [buffer |-> SubarrayFrom(b1, lengthField),
              message |-> << completeMessage >>, outcome |-> "message"]

-----------------------------------------------------------------------------
(* The peer: what it may send *)

\* a well-formed frame around a body: start, total length, body, end
PeerFrame(body) == StartBytes \o UInt16BE(Len(body) + 6) \o body \o EndBytes

\* 5A 0F 00 0B 00 0D 08 AB BA CE DE 01 2E 8D: the 14 bytes of spec section 8,
\* whose length field says 11
Scenario == << 90, 15, 0, 11, 0, 13, 8, 171, 186, 206, 222, 1, 46, 141 >>

\* the same header and body in a frame whose length field is its byte count, 14
ScenarioFixed == PeerFrame(<< 0, 13, 8, 171, 186, 206, 222, 1 >>)

GoodFrames ==
    { PeerFrame(<< >>),                 \* the shortest frame, 6 bytes
      PeerFrame(<< 90, 15 >>),          \* start bytes inside the body
      PeerFrame(<< 46, 141 >>),         \* end bytes inside the body
      PeerFrame(<< 0, 13, 8, 7 >>) }    \* generation 1, payload 07

CorruptCandidates ==
    { << 90, 15, 0, 0 >>,                      \* length field 0
      << 90, 15, 0, 6, 0, 0 >>,                \* wrong end bytes
      << 90, 15, 0, 8, 90, 15, 0, 12 >> }      \* start bytes and a length inside

Junk == { << 90 >>, << 46, 141 >> }

Segments == GoodFrames \cup CorruptCandidates \cup Junk

RECURSIVE SegStreams(_)
SegStreams(n) ==
    IF n = 0 THEN { << >> }
    ELSE LET shorter == SegStreams(n - 1)
         IN  shorter \cup { s \o g : s \in shorter, g \in Segments }

Streams == (SegStreams(MaxSegs) \ { << >> }) \cup { Scenario, ScenarioFixed }

-----------------------------------------------------------------------------
(* Message client: connection and receive path *)

\* startQueueProcessor: (re)arm the interval timer
StartQueueProcessor ==
    /\ queueProcessor' = TRUE
    /\ untilTick' = RateLimitMs

\* the callback of socket.connect in tryConnect, with setupSocketHandlers
ConnectCallback ==
    /\ client = "message"
    /\ UNCHANGED <<client, codecVars, tokVars>>
    /\ net = "connecting"
    /\ net' = "open"
    /\ socket' = TRUE
    /\ UNCHANGED <<connected, envVars, rxVars, timerVars, queueVars>>

\* socket.on('data') with the first n unread bytes of the stream: mark the
\* client connected, start the queue processor, and enter handleMessage
OnData(n) ==
    /\ client = "message"
    /\ UNCHANGED <<client, codecVars, tokVars>>
    /\ net = "open"
    /\ pc = "idle"
    /\ n \in 1..(Len(stream) - pos)
    /\ IF ~connected
       THEN connected' = TRUE /\ StartQueueProcessor
       ELSE UNCHANGED <<connected, timerVars>>
    /\ buffer' = buffer \o SubSeq(stream, pos + 1, pos + n)
    /\ pos' = pos + n
    /\ nChunks' = nChunks + 1
    /\ pc' = "loop"
    /\ iters' = 0
    /\ outcome' = "none"
    /\ prev' = << >>
    /\ UNCHANGED <<stream, delivered, parsed, net, socket, queueVars>>

\* one iteration of the while loop of handleMessage, and the loop test after it
HandleMessageStep ==
    /\ client = "message"
    /\ UNCHANGED <<client, codecVars, tokVars>>
    /\ pc = "loop"
    /\ LET r == HandleMessageIter(buffer)
       IN  /\ buffer' = r.buffer
           /\ prev' = buffer
           /\ outcome' = r.outcome
           /\ delivered' = delivered \o r.message
           /\ parsed' = IF r.message = << >> THEN parsed
                        ELSE Append(parsed, ProcessMessage(r.message[1]))
           /\ pc' = IF r.outcome \in Breaks \/ Len(r.buffer) = 0
                    THEN "idle" ELSE "loop"
    /\ iters' = iters + 1
    /\ UNCHANGED <<stream, pos, nChunks, connVars, timerVars, queueVars>>

-----------------------------------------------------------------------------
(* Message client: send queue and dispatcher *)

\* as AddToQueue, but every request is appended, urgent or not
AddToQueueAppendsAlways(q, req) == Append(q, req)

\* as AddToQueue, but an urgent request goes to the very front
AddToQueueUrgentToFront(q, req) ==
    IF req.Urgent THEN << req >> \o q ELSE Append(q, req)

\* addToQueue: the queue after queueing req.  An urgent request is spliced
\* in after the run of urgent requests at the front, a normal one is pushed.
AddToQueue(q, req) ==
    IF req.Urgent
    THEN LET \* the for loop: i + 1 for the last i of the urgent run at the front
             insertIndex ==
                 IF \E i \in 1..Len(q) : ~q[i].Urgent
                 THEN (CHOOSE i \in 1..Len(q) :
                          /\ ~q[i].Urgent
                          /\ \A j \in 1..(i - 1) : q[j].Urgent) - 1
                 ELSE Len(q)
         IN  SubSeq(q, 1, insertIndex) \o << req >>
                \o SubSeq(q, insertIndex + 1, Len(q))
    ELSE Append(q, req)

\* addToQueue / createAndQueueMessage called by the application
AddToQueueCall(urgent) ==
    /\ client = "message"
    /\ UNCHANGED <<client, codecVars, tokVars>>
    /\ pc = "idle"
    /\ nextId <= MaxEnvelopes
    /\ messageQueue' = AddToQueue(messageQueue, [id |-> nextId, Urgent |-> urgent])
    /\ nextId' = nextId + 1
    /\ enqueuedAt' = Append(enqueuedAt, Len(writes))
    /\ UNCHANGED <<envVars, rxVars, connVars, timerVars, isProcessingQueue, sinceWrite, writes>>

\* sendMessage: queues only when connected (else it returns false)
SendMessage(urgent) ==
    /\ connected
    /\ AddToQueueCall(urgent)

\* clearQueue
ClearQueue ==
    /\ client = "message"
    /\ UNCHANGED <<client, codecVars, tokVars>>
    /\ pc = "idle"
    /\ messageQueue # << >>
    /\ messageQueue' = << >>
    /\ UNCHANGED <<envVars, rxVars, connVars, timerVars, isProcessingQueue, sinceWrite,
                   nextId, enqueuedAt, writes>>

\* as ProcessQueue, but the tick sends everything that is queued
ProcessQueueDrainsAll ==
    IF isProcessingQueue \/ ~connected \/ Len(messageQueue) = 0
    THEN UNCHANGED <<messageQueue, writes, sinceWrite, isProcessingQueue>>
    ELSE /\ messageQueue' = << >>
         /\ IF ~socket \/ ~connected
            THEN UNCHANGED <<writes, sinceWrite>>
            ELSE writes' = writes \o messageQueue /\ sinceWrite' = 0
         /\ isProcessingQueue' = FALSE

\* processQueue with sendHCIRequest: at most one request is shifted off the
\* queue and written.  sendHCIRequest has no await inside, so the write is done
\* and isProcessingQueue is reset before any other callback runs.
ProcessQueue ==
    IF isProcessingQueue \/ ~connected \/ Len(messageQueue) = 0
    THEN UNCHANGED <<messageQueue, writes, sinceWrite, isProcessingQueue>>
    ELSE /\ messageQueue' = Tail(messageQueue)
         /\ IF ~socket \/ ~connected
            THEN UNCHANGED <<writes, sinceWrite>>
            ELSE writes' = Append(writes, Head(messageQueue)) /\ sinceWrite' = 0
         /\ isProcessingQueue' = FALSE

\* the interval timer of startQueueProcessor fires
Tick ==
    /\ client = "message"
    /\ UNCHANGED <<client, codecVars, tokVars>>
    /\ pc = "idle"
    /\ queueProcessor
    /\ untilTick = 0
    /\ untilTick' = RateLimitMs
    /\ ProcessQueue
    /\ UNCHANGED <<envVars, rxVars, connVars, queueProcessor, nextId, enqueuedAt>>

\* one unit of time passes; a due timer fires first
Elapse ==
    /\ client = "message"
    /\ UNCHANGED <<client, codecVars, tokVars>>
    /\ pc = "idle"
    /\ queueProcessor => untilTick > 0
    /\ untilTick' = IF queueProcessor THEN untilTick - 1 ELSE untilTick
    /\ sinceWrite' = Min(sinceWrite + 1, RateLimitMs)
    /\ UNCHANGED <<envVars, rxVars, connVars, queueProcessor, messageQueue,
                   isProcessingQueue, nextId, enqueuedAt, writes>>

\* stopQueueProcessor
StopQueueProcessor ==
    /\ queueProcessor' = FALSE
    /\ UNCHANGED untilTick

\* the connection attempt fails: tryConnect's 'error' handler or its 12 s timer
\* destroys the socket and rejects a promise nobody awaits
ConnectFails ==
    /\ client = "message"
    /\ UNCHANGED <<client, codecVars, tokVars>>
    /\ net = "connecting"
    /\ net' = "closed"
    /\ UNCHANGED <<socket, connected, envVars, rxVars, timerVars, queueVars>>

\* as OnClose, but the pending requests are dropped with the connection
OnCloseClearsQueue ==
    /\ client = "message"
    /\ UNCHANGED <<client, codecVars, tokVars>>
    /\ net = "open"
    /\ pc = "idle"
    /\ net' = "closed"
    /\ connected' = FALSE
    /\ socket' = FALSE
    /\ StopQueueProcessor
    /\ messageQueue' = << >>
    /\ UNCHANGED <<envVars, rxVars, isProcessingQueue, sinceWrite, nextId,
                   enqueuedAt, writes>>

\* socket.on('close') and socket.on('error') of setupSocketHandlers
OnClose ==
    /\ client = "message"
    /\ UNCHANGED <<client, codecVars, tokVars>>
    /\ net = "open"
    /\ pc = "idle"
    /\ net' = "closed"
    /\ connected' = FALSE
    /\ socket' = FALSE
    /\ StopQueueProcessor
    /\ UNCHANGED <<envVars, rxVars, queueVars>>

\* disconnect(): the socket is destroyed only if this.socket is set
Disconnect ==
    /\ client = "message"
    /\ UNCHANGED <<client, codecVars, tokVars>>
    /\ pc = "idle"
    /\ StopQueueProcessor
    /\ net' = IF socket THEN "closed" ELSE net
    /\ socket' = FALSE
    /\ connected' = FALSE
    /\ UNCHANGED <<envVars, rxVars, queueVars>>

\* getStatus()
GetStatus == IF connected THEN "Connected" ELSE "Disconnected"

-----------------------------------------------------------------------------
(* Token client (part_001) *)

\* Buffer.readUInt32BE(offset)
ReadUInt32BE(buf, off) ==
    ((buf[off + 1] * 256 + buf[off + 2]) * 256 + buf[off + 3]) * 256 + buf[off + 4]

\* enqueue: the queue after queueing req.  An urgent request goes before the
\* first request that is not urgent, a normal one is pushed.
Enqueue(q, req) ==
    IF req.Urgent
    THEN IF \A i \in 1..Len(q) : q[i].Urgent
         THEN Append(q, req)
         ELSE LET idx == (CHOOSE i \in 1..Len(q) :
                             /\ ~q[i].Urgent
                             /\ \A j \in 1..(i - 1) : q[j].Urgent) - 1
              IN  SubSeq(q, 1, idx) \o << req >> \o SubSeq(q, idx + 1, Len(q))
    ELSE Append(q, req)

\* handlePacket: what it does with a packet of len bytes.  Reading the request
\* id needs 2 payload bytes and reading the token 6; a shorter payload makes the
\* read throw (RangeError, out of the 'data' listener).
HandlePacket(packet) ==
    LET payload == Subarray(packet, 4, -2)
        reqId == ReadUInt16BE(payload, 0)
    IN  IF Len(payload) < 2
        THEN [kind |-> "throws", reqId |-> -1, token |-> -1, len |-> Len(packet)]
        ELSE IF reqId = 32769    \* 0x8001
        THEN IF Len(payload) < 6
             THEN [kind |-> "throws", reqId |-> reqId, token |-> -1,
                   len |-> Len(packet)]
             ELSE [kind |-> "authenticated", reqId |-> reqId,
                   token |-> ReadUInt32BE(payload, 2), len |-> Len(packet)]
        ELSE [kind |-> "response", reqId |-> reqId, token |-> -1,
              len |-> Len(packet)]

\* handleData: one pass through the body of its while loop, on a buffer of at
\* least 6 bytes.  packet is << >> or << the packet given to handlePacket >>.
\*   "resync"      continue: the buffer did not start with START
\*   "incomplete"  break: fewer bytes than the length field says
\*   "badEnd"      continue: the packet was cut off, its end bytes are wrong
\*   "packet"      the packet was cut off and given to handlePacket
HandleDataIter(buf) ==
    LET idx == IndexOf(buf, StartBytes)
        len == ReadUInt16BE(buf, 2)
        packet == Subarray(buf, 0, len)
    IN  IF Subarray(buf, 0, 2) # StartBytes
        THEN [buffer |-> IF idx = -1 THEN << >> ELSE SubarrayFrom(buf, idx),
              packet |-> << >>, outcome |-> "resync"]
        ELSE IF Len(buf) < len
        THEN [buffer |-> buf, packet |-> << >>, outcome |-> "incomplete"]
        ELSE IF SubarrayFrom(packet, -2) # EndBytes
        THEN [buffer |-> SubarrayFrom(buf, len), packet |-> << >>,
              outcome |-> "badEnd"]
        ELSE [buffer |-> SubarrayFrom(buf, len), packet |-> << packet >>,
              outcome |-> "packet"]

\* the login request of sendLoginV2 and a command of sendCommand, as queued by
\* sendRaw: new HCIRequest(0, packet, urgent); the packet is named by what it
\* carries
LoginRequest == [Urgent |-> TRUE, what |-> "login", token |-> 0]

CommandRequest(urgent) ==
    [Urgent |-> urgent, what |-> "command", token |-> sessionToken]

\* Buffer.writeUInt32BE(v)
UInt32BE(v) ==
    << (v \div 16777216) % 256, (v \div 65536) % 256, (v \div 256) % 256, v % 256 >>

\* HCI.buildPacket(requestId, payload): start, total length, payload, end; the
\* request id is not written
BuildPacket(requestId, payload) ==
    StartBytes \o UInt16BE(4 + Len(payload) + 2) \o payload \o EndBytes

\* HCI.v2Payload(requestId, data, token): request id, 32-bit token, data
V2Payload(requestId, data, token) ==
    UInt16BE(requestId) \o UInt32BE(token) \o data

\* the payload built by sendLoginV2 for the default user 'admin' and the
\* default empty password: 0x0001, the two length-prefixed strings, version 2
LoginPayload ==
    << 0, 1 >> \o << 5, 97, 100, 109, 105, 110 >> \o << 0 >> \o << 0, 2 >>

\* the command the application sends with sendCommand(id, data, urgent)
SentCommand == [id |-> 13, data |-> << 7 >>]

\* the packet that sendLoginV2 or sendCommand hands to sendRaw, which becomes
\* the Data of the queued HCIRequest
PacketOf(req) ==
    IF req.what = "login"
    THEN BuildPacket(1, LoginPayload)
    ELSE BuildPacket(SentCommand.id,
                     V2Payload(SentCommand.id, SentCommand.data, req.token))

\* HCIRequest.getRequest() of a queued request (RequestID 0, Data the packet):
\* the bytes drain writes
RequestBytes(req) == BuildPacket(0, PacketOf(req))

\* sock.once('connect'): socket, empty buffer, 'connected', setupSocket,
\* startQueue, sendLoginV2
TConnectEvent ==
    /\ client = "token"
    /\ ~crashed
    /\ tpc = "idle"
    /\ tNet = "connecting"
    /\ nConnects < MaxConnects
    /\ tNet' = "open"
    /\ tSocket' = TRUE
    /\ tBuffer' = << >>
    /\ state' = "connected"
    /\ timer' = TRUE
    /\ queue' = Enqueue(queue, LoginRequest)
    /\ nConnects' = nConnects + 1
    /\ connectedAt' = Len(tWrites)
    /\ UNCHANGED <<client, codecVars, envVars, msgVars, sessionToken, reconnect, reconnectTimer,
                   processing, tWrites, nCommands,
                   tpc, tIters, tOutcome, tPrev, events, crashed>>

\* sock.once('error') / sock.once('timeout') before the connect event: the
\* socket is destroyed and the promise of connect() rejected; no field changes
TConnectFails ==
    /\ client = "token"
    /\ ~crashed
    /\ tNet = "connecting"
    /\ tNet' = "closed"
    /\ UNCHANGED <<client, codecVars, envVars, msgVars, tSocket, state, sessionToken, reconnect,
                   reconnectTimer, nConnects, connectedAt, tQueueVars, tRxVars>>

\* socket.on('close') -> handleClose
THandleClose ==
    /\ client = "token"
    /\ ~crashed
    /\ tpc = "idle"
    /\ tNet \in {"open", "destroyed"}
    /\ tNet' = "closed"
    /\ state' = "disconnected"
    /\ sessionToken' = 0
    /\ timer' = FALSE
    /\ tSocket' = FALSE
    /\ reconnectTimer' = IF reconnect /\ reconnectTimer = "null"
                         THEN "armed" ELSE reconnectTimer
    /\ UNCHANGED <<client, codecVars, envVars, msgVars, reconnect, nConnects, connectedAt, queue, processing,
                   tWrites, nCommands, tRxVars>>

\* the reconnect timer fires: reconnectTimer = null, connect()
TReconnectFires ==
    /\ client = "token"
    /\ ~crashed
    /\ tpc = "idle"
    /\ reconnectTimer = "armed"
    /\ reconnectTimer' = "null"
    /\ IF state = "connecting"
       THEN UNCHANGED <<state, tNet>>
       ELSE state' = "connecting" /\ tNet' = "connecting"
    /\ UNCHANGED <<client, codecVars, envVars, msgVars, tSocket, sessionToken, reconnect, nConnects,
                   connectedAt,
                   tQueueVars, tRxVars>>

\* sendCommand(id, data, urgent): v2Payload with the current token,
\* buildPacket, sendRaw -> enqueue
TSendCommand(urgent) ==
    /\ client = "token"
    /\ ~crashed
    /\ tpc = "idle"
    /\ nCommands < MaxEnvelopes
    /\ queue' = Enqueue(queue, CommandRequest(urgent))
    /\ nCommands' = nCommands + 1
    /\ UNCHANGED <<client, codecVars, envVars, msgVars, tConnVars, timer, processing, tWrites, tRxVars>>

\* the interval timer of startQueue fires: drain
TDrain ==
    /\ client = "token"
    /\ ~crashed
    /\ tpc = "idle"
    /\ timer
    /\ IF processing \/ ~tSocket \/ Len(queue) = 0
       THEN UNCHANGED <<queue, tWrites>>
       ELSE queue' = Tail(queue) /\ tWrites' = Append(tWrites, Head(queue))
    /\ UNCHANGED <<client, codecVars, envVars, msgVars, tConnVars, timer, processing, nCommands, tRxVars>>

\* disconnect(): no more reconnects, clearTimeout, socket?.destroy()
TDisconnect ==
    /\ client = "token"
    /\ ~crashed
    /\ tpc = "idle"
    /\ reconnect' = FALSE
    /\ reconnectTimer' = IF reconnectTimer = "armed" THEN "cleared" ELSE reconnectTimer
    /\ tNet' = IF tSocket /\ tNet = "open" THEN "destroyed" ELSE tNet
    /\ UNCHANGED <<client, codecVars, envVars, msgVars, tSocket, state, sessionToken, nConnects,
                   connectedAt,
                   tQueueVars, tRxVars>>

\* socket.on('data') -> handleData with the next n bytes of the stream
THandleData(n) ==
    /\ client = "token"
    /\ ~crashed
    /\ tpc = "idle"
    /\ tNet = "open"
    /\ n \in 1..(Len(stream) - pos)
    /\ tBuffer' = tBuffer \o SubSeq(stream, pos + 1, pos + n)
    /\ pos' = pos + n
    /\ nChunks' = nChunks + 1
    /\ tpc' = IF Len(tBuffer) + n >= 6 THEN "loop" ELSE "idle"
    /\ tIters' = 0
    /\ tOutcome' = "none"
    /\ tPrev' = << >>
    /\ UNCHANGED <<client, codecVars, stream, msgVars, tConnVars, tQueueVars, events, crashed>>

\* one iteration of the while loop of handleData, with handlePacket, and the
\* loop test after it
THandleDataStep ==
    /\ client = "token"
    /\ tpc = "loop"
    /\ LET r == HandleDataIter(tBuffer)
           h == HandlePacket(r.packet[1])
       IN  /\ tBuffer' = r.buffer
           /\ tPrev' = tBuffer
           /\ tOutcome' = r.outcome
           /\ IF r.packet = << >>
              THEN UNCHANGED <<events, crashed, sessionToken, state>>
              ELSE /\ events' = Append(events, h)
                   /\ crashed' = (h.kind = "throws")
                   /\ IF h.kind = "authenticated"
                      THEN sessionToken' = h.token /\ state' = "authenticated"
                      ELSE UNCHANGED <<sessionToken, state>>
           /\ tpc' = IF \/ r.outcome = "incomplete"
                        \/ Len(r.buffer) < 6
                        \/ (r.packet # << >> /\ h.kind = "throws")
                     THEN "idle" ELSE "loop"
    /\ tIters' = Min(tIters + 1, MaxIters)
    /\ UNCHANGED <<client, codecVars, envVars, msgVars, tNet, tSocket, reconnect, reconnectTimer,
                   nConnects, connectedAt, tQueueVars>>

-----------------------------------------------------------------------------
(* Requests: HCIRequest (part_012) *)

\* a | b on non-negative integers
RECURSIVE BitOr(_, _)
BitOr(a, b) ==
    IF a = 0 THEN b
    ELSE IF b = 0 THEN a
    ELSE (IF a % 2 = 1 \/ b % 2 = 1 THEN 1 ELSE 0) + 2 * BitOr(a \div 2, b \div 2)

\* a & b on non-negative integers
RECURSIVE BitAnd(_, _)
BitAnd(a, b) ==
    IF a = 0 \/ b = 0 THEN 0
    ELSE (IF a % 2 = 1 /\ b % 2 = 1 THEN 1 ELSE 0) + 2 * BitAnd(a \div 2, b \div 2)

\* as GetRequest, but the length field leaves out the two end bytes
GetRequestLengthWithoutEnd(req, flags) ==
    LET finalFlags == BitOr(flags, 8)
        head == IF req.Version = 2
                THEN << finalFlags >> \o V2Signature \o << req.ProtocolVersion >>
                ELSE << finalFlags >>
        totalLength == 2 + 2 + 2 + Len(head) + Len(req.Data)
    IN  StartBytes \o UInt16BE(totalLength) \o UInt16BE(req.RequestID)
            \o head \o req.Data \o EndBytes

\* as GetRequest, but the flags byte is the argument as given, without the
\* G bit
GetRequestFlagsAsGiven(req, flags) ==
    LET head == IF req.Version = 2
                THEN << flags >> \o V2Signature \o << req.ProtocolVersion >>
                ELSE << flags >>
        totalLength == 2 + 2 + 2 + Len(head) + Len(req.Data) + 2
    IN  StartBytes \o UInt16BE(totalLength) \o UInt16BE(req.RequestID)
            \o head \o req.Data \o EndBytes

\* getRequest(flags): start, length, RequestID, flags | 0x08, for Version 2 the
\* preamble AB BA CE DE and ProtocolVersion, Data, end
GetRequest(req, flags) ==
    LET finalFlags == BitOr(flags, 8)
        head == IF req.Version = 2
                THEN << finalFlags >> \o V2Signature \o << req.ProtocolVersion >>
                ELSE << finalFlags >>
        totalLength == 2 + 2 + 2 + Len(head) + Len(req.Data) + 2
    IN  StartBytes \o UInt16BE(totalLength) \o UInt16BE(req.RequestID)
            \o head \o req.Data \o EndBytes

\* new HCIRequest(requestID, data, urgent), Version and ProtocolVersion as set
\* by the caller afterwards (2 and 1 by default)
HCIRequestObject(requestID, data, urgent, version, protocolVersion) ==
    [type |-> "HCIRequest", RequestID |-> requestID, Version |-> version,
     ProtocolVersion |-> protocolVersion, Data |-> data, Urgent |-> urgent]

\* request.getRequest(flags)
GetRequestCall(flags) ==
    /\ client = "codec"
    /\ request.type # "none"
    /\ call.op # "getRequest"
    /\ call' = [op |-> "getRequest", arg |-> flags]
    /\ threw' = FALSE
    /\ returned' = GetRequest(request, flags)
    /\ UNCHANGED <<client, envVars, msgVars, tokVars, request>>

\* request.getRequest(flags), and the bytes it returns sent to the message
\* client (as a peer that echoes the frame would)
GetRequestToClient(flags) ==
    /\ client = "message"
    /\ request.type # "none"
    /\ call.op = "new"
    /\ call' = [op |-> "getRequest", arg |-> flags]
    /\ threw' = FALSE
    /\ returned' = GetRequest(request, flags)
    /\ stream' = returned'
    /\ UNCHANGED <<client, pos, nChunks, msgVars, tokVars, request>>

-----------------------------------------------------------------------------
(* Requests: RequestCrosspointStatus (part_005) *)

\* as PortInRange, but the upper limit is off by one
PortInRangeUpTo1024(port) == port >= 0 /\ port <= 1024

\* the negation of: port < 0 || port > 1023
PortInRange(port) == port >= 0 /\ port <= 1023

\* the checks of the constructor and of setPorts: 1 to 495 ports, each in range
PortsAccepted(ports) ==
    /\ Len(ports) >= 1
    /\ Len(ports) <= 495
    /\ \A i \in 1..Len(ports) : PortInRange(ports[i])

\* Buffer.concat of the 2-byte big-endian port numbers
RECURSIVE PortData(_)
PortData(ports) ==
    IF ports = << >> THEN << >>
    ELSE UInt16BE(Head(ports)) \o PortData(Tail(ports))

\* RequestCrosspointStatus.createPayload: count, then the ports
CrosspointPayload(ports) == UInt16BE(Len(ports)) \o PortData(ports)

\* the object the constructor makes: message id 0x000D, Version 2
CrosspointStatusObject(ports, urgent) ==
    [type |-> "RequestCrosspointStatus", RequestID |-> 13, Version |-> 2,
     ProtocolVersion |-> 1, Data |-> CrosspointPayload(ports), Urgent |-> urgent,
     Ports |-> ports]

\* new RequestCrosspointStatus(ports, urgent), for the one object followed
\* here; when it throws there is no object
NewCrosspointStatus(ports, urgent) ==
    /\ client = "codec"
    /\ request.type = "none"
    /\ call' = [op |-> "new", arg |-> ports]
    /\ returned' = << >>
    /\ IF PortsAccepted(ports)
       THEN threw' = FALSE /\ request' = CrosspointStatusObject(ports, urgent)
       ELSE threw' = TRUE /\ UNCHANGED request
    /\ UNCHANGED <<client, envVars, msgVars, tokVars>>

\* addPort(port)
AddPort(port) ==
    /\ client = "codec"
    /\ request.type = "RequestCrosspointStatus"
    /\ call' = [op |-> "addPort", arg |-> port]
    /\ returned' = << >>
    /\ IF ~PortInRange(port) \/ Len(request.Ports) >= 495
       THEN threw' = TRUE /\ UNCHANGED request
       ELSE /\ threw' = FALSE
            /\ IF \E i \in 1..Len(request.Ports) : request.Ports[i] = port
               THEN UNCHANGED request
               ELSE LET ports == Append(request.Ports, port)
                    IN  request' = [request EXCEPT !.Ports = ports,
                                                   !.Data = CrosspointPayload(ports)]
    /\ UNCHANGED <<client, envVars, msgVars, tokVars>>

\* removePort(port): the port is spliced out before the check for an empty
\* list, updatePayload runs after it
RemovePort(port) ==
    /\ client = "codec"
    /\ request.type = "RequestCrosspointStatus"
    /\ call' = [op |-> "removePort", arg |-> port]
    /\ IF \E i \in 1..Len(request.Ports) : request.Ports[i] = port
       THEN LET index == CHOOSE i \in 1..Len(request.Ports) :
                            /\ request.Ports[i] = port
                            /\ \A j \in 1..(i - 1) : request.Ports[j] # port
                ports == SubSeq(request.Ports, 1, index - 1)
                            \o SubSeq(request.Ports, index + 1, Len(request.Ports))
            IN  IF ports = << >>
                THEN /\ threw' = TRUE
                     /\ returned' = << >>
                     /\ request' = [request EXCEPT !.Ports = ports]
                ELSE /\ threw' = FALSE
                     /\ returned' = << TRUE >>
                     /\ request' = [request EXCEPT !.Ports = ports,
                                                    !.Data = CrosspointPayload(ports)]
       ELSE threw' = FALSE /\ returned' = << FALSE >> /\ UNCHANGED request
    /\ UNCHANGED <<client, envVars, msgVars, tokVars>>

\* setPorts(ports)
SetPorts(ports) ==
    /\ client = "codec"
    /\ request.type = "RequestCrosspointStatus"
    /\ call' = [op |-> "setPorts", arg |-> ports]
    /\ returned' = << >>
    /\ IF PortsAccepted(ports)
       THEN /\ threw' = FALSE
            /\ request' = [request EXCEPT !.Ports = ports,
                                           !.Data = CrosspointPayload(ports)]
       ELSE threw' = TRUE /\ UNCHANGED request
    /\ UNCHANGED <<client, envVars, msgVars, tokVars>>

\* the caller hands the request to addToQueue of the message client
QueueRequest ==
    /\ client = "codec"
    /\ request.type # "none"
    /\ nextId <= MaxEnvelopes
    /\ call' = [op |-> "addToQueue", arg |-> nextId]
    /\ threw' = FALSE
    /\ returned' = << >>
    /\ messageQueue' = AddToQueue(messageQueue, [id |-> nextId, Urgent |-> request.Urgent])
    /\ nextId' = nextId + 1
    /\ enqueuedAt' = Append(enqueuedAt, Len(writes))
    /\ UNCHANGED <<client, envVars, tokVars, request, rxVars, connVars, timerVars,
                   isProcessingQueue, sinceWrite, writes>>

-----------------------------------------------------------------------------
(* Requests: RequestConferenceActions *)

\* word 0 of an action: bit 0 direction, bits 1-2 port bits 8-9, bit 3 mode,
\* bit 10 set, bits 11-12 conference bits 8-9
ActionWord0(action) ==
    LET direction == IF action.direction = "add" THEN 1 ELSE 0
        portHigh == BitAnd(action.portNumber \div 256, 3) * 2
        mode == IF action.mode = "talk" THEN 8 ELSE 0
        conferenceHigh == BitAnd(action.conferenceNumber \div 256, 3) * 2048
    IN  BitOr(BitOr(BitOr(BitOr(direction, portHigh), mode), 1024), conferenceHigh)

\* word 1 of an action: bits 0-7 port bits 0-7, bits 8-13 conference bits 0-5
ActionWord1(action) ==
    BitOr(BitAnd(action.portNumber, 255), BitAnd(action.conferenceNumber, 63) * 256)

\* action type 0x0020, then four words, the last two 0
RECURSIVE ActionData(_)
ActionData(actions) ==
    IF actions = << >> THEN << >>
    ELSE UInt16BE(32) \o UInt16BE(ActionWord0(Head(actions)))
            \o UInt16BE(ActionWord1(Head(actions))) \o << 0, 0, 0, 0 >>
            \o ActionData(Tail(actions))

\* RequestConferenceActions.createPayload: tag, schema 1, count, the actions
ConferencePayload(actions) ==
    V2Signature \o << 1 >> \o UInt16BE(Len(actions)) \o ActionData(actions)

\* validateNumbers, which nothing calls
ValidateNumbers(portNumber, conferenceNumber) ==
    /\ portNumber >= 0 /\ portNumber <= 1023
    /\ conferenceNumber >= 0 /\ conferenceNumber <= 1023

\* new RequestConferenceActions(actions, urgent): message id 0x0011; nothing
\* is checked
NewConferenceActions(actions, urgent) ==
    /\ client = "codec"
    /\ request.type = "none"
    /\ call' = [op |-> "new", arg |-> actions]
    /\ returned' = << >>
    /\ threw' = FALSE
    /\ request' = [type |-> "RequestConferenceActions", RequestID |-> 17,
                   Version |-> 2, ProtocolVersion |-> 1,
                   Data |-> ConferencePayload(actions), Urgent |-> urgent,
                   Actions |-> actions]
    /\ UNCHANGED <<client, envVars, msgVars, tokVars>>

\* addAction(action): push, updatePayload
AddAction(action) ==
    /\ client = "codec"
    /\ request.type = "RequestConferenceActions"
    /\ Len(request.Actions) < MaxActions
    /\ call' = [op |-> "addAction", arg |-> << action >>]
    /\ returned' = << >>
    /\ threw' = FALSE
    /\ LET actions == Append(request.Actions, action)
       IN  request' = [request EXCEPT !.Actions = actions,
                                      !.Data = ConferencePayload(actions)]
    /\ UNCHANGED <<client, envVars, msgVars, tokVars>>

\* removeAction(index)
RemoveAction(index) ==
    /\ client = "codec"
    /\ request.type = "RequestConferenceActions"
    /\ call' = [op |-> "removeAction", arg |-> index]
    /\ threw' = FALSE
    /\ IF index >= 0 /\ index < Len(request.Actions)
       THEN LET actions == SubSeq(request.Actions, 1, index)
                              \o SubSeq(request.Actions, index + 2, Len(request.Actions))
            IN  /\ request' = [request EXCEPT !.Actions = actions,
                                              !.Data = ConferencePayload(actions)]
                /\ returned' = << TRUE >>
       ELSE returned' = << FALSE >> /\ UNCHANGED request
    /\ UNCHANGED <<client, envVars, msgVars, tokVars>>

-----------------------------------------------------------------------------
(* Utilities: LevelConversion.  A dB value is held in thousandths of a dB. *)

\* Number.NEGATIVE_INFINITY: below every dB value
NegativeInfinity == -1000000000

\* LEVEL_REFERENCE_TABLE, dB and level of each row
LevelReferenceTable ==
    << [dB |-> -90, level |-> 0],    [dB |-> -72, level |-> 18],
       [dB |-> -66, level |-> 35],   [dB |-> -60, level |-> 52],
       [dB |-> -54, level |-> 69],   [dB |-> -48, level |-> 86],
       [dB |-> -42, level |-> 103],  [dB |-> -36, level |-> 119],
       [dB |-> -30, level |-> 136],  [dB |-> -24, level |-> 153],
       [dB |-> -18, level |-> 170],  [dB |-> -12, level |-> 179],
       [dB |-> -9, level |-> 187],   [dB |-> -6, level |-> 196],
       [dB |-> -3, level |-> 204],   [dB |-> 0, level |-> 212],
       [dB |-> 3, level |-> 221],    [dB |-> 6, level |-> 229],
       [dB |-> 9, level |-> 238],    [dB |-> 12, level |-> 246],
       [dB |-> 15, level |-> 255],   [dB |-> 18, level |-> 263],
       [dB |-> 21, level |-> 272],   [dB |-> 24, level |-> 280],
       [dB |-> 27, level |-> 287] >>

\* levelToDB(level), in thousandths of a dB: level 0 is cut, a level of the
\* table gives the table's dB, any other (level - 204) * 0.355
LevelToDB(level) ==
    IF level = 0 THEN NegativeInfinity
    ELSE IF \E i \in 1..Len(LevelReferenceTable) : LevelReferenceTable[i].level = level
    THEN 1000 * LevelReferenceTable[CHOOSE i \in 1..Len(LevelReferenceTable) :
                        /\ LevelReferenceTable[i].level = level
                        /\ \A j \in 1..(i - 1) : LevelReferenceTable[j].level # level].dB
    ELSE (level - 204) * 355

\* dBToLevel(dB), dB in thousandths: below -72 dB is level 0, a dB of the
\* table gives the table's level, any other Math.round(dB / 0.355 + 204)
\* clamped to 0..287
DBToLevel(dB) ==
    IF dB = NegativeInfinity \/ dB < -72000 THEN 0
    ELSE IF \E i \in 1..Len(LevelReferenceTable) : 1000 * LevelReferenceTable[i].dB = dB
    THEN LevelReferenceTable[CHOOSE i \in 1..Len(LevelReferenceTable) :
                        /\ 1000 * LevelReferenceTable[i].dB = dB
                        /\ \A j \in 1..(i - 1) : 1000 * LevelReferenceTable[j].dB # dB].level
    ELSE Max(0, Min(287, (2 * dB + 355 * 409) \div 710))

\* LevelConversion.levelToDB(level)
LevelToDBCall(level) ==
    /\ client = "codec"
    /\ call.op = "none"
    /\ call' = [op |-> "levelToDB", arg |-> level]
    /\ threw' = FALSE
    /\ returned' = << LevelToDB(level) >>
    /\ UNCHANGED <<client, envVars, msgVars, tokVars, request>>

\* LevelConversion.dBToLevel(dB)
DBToLevelCall(dB) ==
    /\ client = "codec"
    /\ call.op = "none"
    /\ call' = [op |-> "dBToLevel", arg |-> dB]
    /\ threw' = FALSE
    /\ returned' = << DBToLevel(dB) >>
    /\ UNCHANGED <<client, envVars, msgVars, tokVars, request>>

-----------------------------------------------------------------------------
(* Responses: ReplyCrosspointLevelStatus *)

\* the entries read by the for loop of parse, from offset (0-based) on
RECURSIVE LevelEntries(_, _, _)
LevelEntries(payload, offset, n) ==
    IF n = 0 THEN << >>
    ELSE << [destinationPort |-> ReadUInt16BE(payload, offset) + 1,
             sourcePort |-> ReadUInt16BE(payload, offset + 2) + 1,
             levelValue |-> ReadUInt16BE(payload, offset + 4),
             levelDB |-> LevelToDB(ReadUInt16BE(payload, offset + 4))] >>
         \o LevelEntries(payload, offset + 6, n - 1)

\* as ParseCrosspointLevelStatus, but the entries are read without the check
\* that the payload holds them all: a read past the end throws
ParseCrosspointLevelStatusUnchecked(payload) ==
    IF Len(payload) < 2
    THEN [kind |-> "null", count |-> 0, levelData |-> << >>]
    ELSE LET count == ReadUInt16BE(payload, 0)
         IN  IF Len(payload) < 2 + count * 6
             THEN [kind |-> "throws", count |-> count, levelData |-> << >>]
             ELSE [kind |-> "data", count |-> count,
                   levelData |-> LevelEntries(payload, 2, count)]

\* ReplyCrosspointLevelStatus.parse: null for a payload of less than 2 bytes or
\* less than 2 + count * 6 bytes, else count and the entries
ParseCrosspointLevelStatus(payload) ==
    IF Len(payload) < 2
    THEN [kind |-> "null", count |-> 0, levelData |-> << >>]
    ELSE LET count == ReadUInt16BE(payload, 0)
         IN  IF Len(payload) < 2 + count * 6
             THEN [kind |-> "null", count |-> count, levelData |-> << >>]
             ELSE [kind |-> "data", count |-> count,
                   levelData |-> LevelEntries(payload, 2, count)]

\* HCIResponse.parseCrosspointLevelStatusReply: the events it emits
CrosspointLevelStatusReplyEvents(payload) ==
    LET crosspointLevelStatus == ParseCrosspointLevelStatus(payload)
    IN  IF crosspointLevelStatus.kind = "data"
        THEN << [event |-> "onReplyCrosspointLevelStatus",
                 data |-> crosspointLevelStatus] >>
        ELSE << >>

\* HCIResponse.parseCrosspointLevelStatusReply(payload)
ParseCrosspointLevelStatusReplyCall(payload) ==
    /\ client = "codec"
    /\ call.op = "none"
    /\ call' = [op |-> "parseCrosspointLevelStatusReply", arg |-> payload]
    /\ threw' = (ParseCrosspointLevelStatus(payload).kind = "throws")
    /\ returned' = << ParseCrosspointLevelStatus(payload),
                      CrosspointLevelStatusReplyEvents(payload) >>
    /\ UNCHANGED <<client, envVars, msgVars, tokVars, request>>

-----------------------------------------------------------------------------
(* Responses: ReplyConferenceStatus, and the dispatch by message id *)

\* the port entries read by the for loop of parse, from offset (0-based) on:
\* bits 0-12 port number, bit 13 listener, bit 14 talker
RECURSIVE ConferencePorts(_, _, _)
ConferencePorts(payload, offset, n) ==
    IF n = 0 THEN << >>
    ELSE LET portData == ReadUInt16BE(payload, offset)
         IN  << [portNumber |-> portData % 8192,
                 isListener |-> (portData \div 8192) % 2 = 1,
                 isTalker |-> (portData \div 16384) % 2 = 1] >>
             \o ConferencePorts(payload, offset + 2, n - 1)

\* ReplyConferenceStatus.parse: null for a payload of less than 9 bytes, for
\* one that does not start with the protocol tag AB BA CE DE, and for one too
\* short for its port count; the schema byte at offset 4 is only warned about
ParseConferenceStatus(payload) ==
    IF Len(payload) < 9
    THEN [kind |-> "null"]
    ELSE IF Subarray(payload, 0, 4) # V2Signature
    THEN [kind |-> "null"]
    ELSE LET portCount == ReadUInt16BE(payload, 5)
             conferenceData == ReadUInt16BE(payload, 7)
         IN  IF Len(payload) < 9 + portCount * 2
             THEN [kind |-> "null"]
             ELSE [kind |-> "data",
                   conferenceNumber |-> conferenceData % 8192,
                   portCount |-> portCount,
                   ports |-> ConferencePorts(payload, 9, portCount)]

\* HCIResponse.parseConferenceStatusReply: the events it emits
ConferenceStatusReplyEvents(payload) ==
    LET conferenceStatus == ParseConferenceStatus(payload)
    IN  IF conferenceStatus.kind = "data"
        THEN << [event |-> "conferenceStatus", data |-> conferenceStatus] >>
        ELSE << >>

\* HCIResponse.handleMessageByID for the outcome of processMessage: the events
\* emitted.  Message ids 0x0014 and 0x0028 of generation 2 go to the two
\* parsers above; the other ids go to parsers that emit events of other names
\* (here: none), and generation 1 knows only the broadcast message.
HandleMessageByID(processed) ==
    IF processed.kind # "handled" THEN << >>
    ELSE IF processed.hciVersion # "HCIv2" THEN << >>
    ELSE IF processed.messageID = 20 THEN ConferenceStatusReplyEvents(processed.payload)
    ELSE IF processed.messageID = 40 THEN CrosspointLevelStatusReplyEvents(processed.payload)
    ELSE << >>

\* ProcessResponse.processMessage(message) for a complete message taken from
\* the receive buffer
ProcessMessageCall(message) ==
    /\ client = "codec"
    /\ call.op = "none"
    /\ call' = [op |-> "processMessage", arg |-> message]
    /\ threw' = FALSE
    /\ returned' = HandleMessageByID(ProcessMessage(message))
    /\ UNCHANGED <<client, envVars, msgVars, tokVars, request>>

-----------------------------------------------------------------------------
(* Requests: RequestCrosspointLevelActions (part_011) *)

\* LevelConversion.isValidLevel, for the integers of the model
IsValidLevel(level) == level >= 0 /\ level <= 287

\* the checks createPayload makes on an action
LevelActionAccepted(action) ==
    /\ action.destinationPort >= 1 /\ action.destinationPort <= 1024
    /\ action.sourcePort >= 1 /\ action.sourcePort <= 1024
    /\ IsValidLevel(action.levelValue)

\* as LevelActionBytes, but the ports are written as the caller gives them
RECURSIVE LevelActionBytesOneBased(_)
LevelActionBytesOneBased(actions) ==
    IF actions = << >> THEN << >>
    ELSE UInt16BE(Head(actions).destinationPort)
            \o UInt16BE(Head(actions).sourcePort)
            \o UInt16BE(Head(actions).levelValue)
            \o LevelActionBytesOneBased(Tail(actions))

\* the 6 bytes of each action: destination - 1, source - 1, level
RECURSIVE LevelActionBytes(_)
LevelActionBytes(actions) ==
    IF actions = << >> THEN << >>
    ELSE UInt16BE(Head(actions).destinationPort - 1)
            \o UInt16BE(Head(actions).sourcePort - 1)
            \o UInt16BE(Head(actions).levelValue)
            \o LevelActionBytes(Tail(actions))

\* RequestCrosspointLevelActions.createPayload: throws at the first action that
\* is not accepted, else count and the actions' bytes
CrosspointLevelPayload(actions) ==
    IF \E i \in 1..Len(actions) : ~LevelActionAccepted(actions[i])
    THEN [threw |-> TRUE, payload |-> << >>]
    ELSE [threw |-> FALSE,
          payload |-> UInt16BE(Len(actions)) \o LevelActionBytes(actions)]

\* new RequestCrosspointLevelActions(actions), and the peer's copy of its
\* payload given to ReplyCrosspointLevelStatus.parse
LevelActionsThenParse(actions) ==
    /\ client = "codec"
    /\ call.op = "none"
    /\ call' = [op |-> "newThenParse", arg |-> actions]
    /\ LET built == CrosspointLevelPayload(actions)
       IN  /\ threw' = built.threw
           /\ request' = IF built.threw THEN request
                         ELSE [type |-> "RequestCrosspointLevelActions", RequestID |-> 38,
                               Version |-> 2, ProtocolVersion |-> 1,
                               Data |-> built.payload, Urgent |-> FALSE,
                               Actions |-> actions]
           /\ returned' = IF built.threw THEN << >>
                          ELSE << ParseCrosspointLevelStatus(built.payload) >>
    /\ UNCHANGED <<client, envVars, msgVars, tokVars>>

-----------------------------------------------------------------------------
(* Requests: RequestOutputLevelActions *)

\* validateActionStatic: port 1..1024 and levelValue 0..255
OutputLevelActionAccepted(action) ==
    /\ ~ (action.port < 1 \/ action.port > 1024)
    /\ ~ (action.levelValue < 0 \/ action.levelValue > 255)

\* createPayload: port - 1 and the level value of each action
RECURSIVE OutputLevelActionBytes(_)
OutputLevelActionBytes(actions) ==
    IF actions = << >> THEN << >>
    ELSE UInt16BE(Head(actions).port - 1) \o UInt16BE(Head(actions).levelValue)
             \o OutputLevelActionBytes(Tail(actions))

\* createPayload: count, then the action entries
OutputLevelPayload(actions) ==
    UInt16BE(Len(actions)) \o OutputLevelActionBytes(actions)

\* RequestOutputLevelActions.singleActionDB(port, levelDB): the level value
\* is dBToLevel(levelDB); the constructor validates the one action, builds
\* the payload and calls super with message id 0x0023
SingleActionDB(port, levelDB) ==
    /\ client = "codec"
    /\ call.op = "none"
    /\ call' = [op |-> "singleActionDB", arg |-> << port, levelDB >>]
    /\ LET action == [port |-> port, levelValue |-> DBToLevel(levelDB),
                      levelDB |-> levelDB]
       IN  /\ threw' = ~ OutputLevelActionAccepted(action)
           /\ request' = IF threw' THEN request
                         ELSE [type |-> "RequestOutputLevelActions", RequestID |-> 35,
                               Version |-> 2, ProtocolVersion |-> 1,
                               Data |-> OutputLevelPayload(<< action >>),
                               Urgent |-> FALSE, Actions |-> << action >>]
           /\ returned' = IF threw' THEN << >> ELSE << "RequestOutputLevelActions" >>
    /\ UNCHANGED <<client, envVars, msgVars, tokVars>>

-----------------------------------------------------------------------------
(* Requests: RequestCrosspointActions (part_008).  The fields OR-ed into a   *)
(* word occupy different bits, so the word is their sum.                    *)

\* validatePorts(sourcePort, destinationPort)
ValidatePorts(sourcePort, destinationPort) ==
    /\ sourcePort > 0 /\ sourcePort <= 1024
    /\ destinationPort > 0 /\ destinationPort <= 1024

\* word 0: bit 0 direction, bits 1-2 (destinationPort >> 8) & 3, bit 10 set,
\* bits 11-12 ((sourcePort - 1) >> 8) & 3, bit 13 set
CrosspointWord0(action) ==
    (IF action.direction = "add" THEN 1 ELSE 0)
        + ((action.destinationPort \div 256) % 4) * 2
        + 1024
        + (((action.sourcePort - 1) \div 256) % 4) * 2048
        + 8192

\* word 1: bits 0-7 (destinationPort - 1) & 0xFF, bits 8-15
\* (sourcePort - 1) & 0xFF
CrosspointWord1(action) ==
    ((action.destinationPort - 1) % 256) + ((action.sourcePort - 1) % 256) * 256

\* word 3: bit 1 and bits 3-9 set, bit 11 inhibit, bits 13-15 priority & 7
CrosspointWord3(action) ==
    2 + 1016
        + (IF action.enableDisable = "inhibit" THEN 2048 ELSE 0)
        + (action.priority % 8) * 8192

\* the checks createPayload makes on one action
CrosspointActionAccepted(action) ==
    /\ ValidatePorts(action.sourcePort, action.destinationPort)
    /\ ~ (action.priority < 0 \/ action.priority > 7)

\* the 10 bytes of each action: action type 0x0001 and words 0 to 3
RECURSIVE CrosspointActionBytes(_)
CrosspointActionBytes(actions) ==
    IF actions = << >> THEN << >>
    ELSE UInt16BE(1)
            \o UInt16BE(CrosspointWord0(Head(actions)))
            \o UInt16BE(CrosspointWord1(Head(actions)))
            \o UInt16BE(0)
            \o UInt16BE(CrosspointWord3(Head(actions)))
            \o CrosspointActionBytes(Tail(actions))

\* RequestCrosspointActions.createPayload: throws at the first action that is
\* not accepted, else count and the actions' bytes
CrosspointActionsPayload(actions) ==
    IF \E i \in 1..Len(actions) : ~ CrosspointActionAccepted(actions[i])
    THEN [threw |-> TRUE, payload |-> << >>]
    ELSE [threw |-> FALSE,
          payload |-> UInt16BE(Len(actions)) \o CrosspointActionBytes(actions)]

\* new RequestCrosspointActions(actions): message id 0x0011, protocol
\* version 2
NewCrosspointActions(actions) ==
    /\ client = "codec"
    /\ call.op = "none"
    /\ call' = [op |-> "new", arg |-> actions]
    /\ LET built == CrosspointActionsPayload(actions)
       IN  /\ threw' = built.threw
           /\ request' = IF built.threw THEN request
                         ELSE [type |-> "RequestCrosspointActions", RequestID |-> 17,
                               Version |-> 2, ProtocolVersion |-> 2,
                               Data |-> built.payload, Urgent |-> FALSE,
                               Actions |-> actions]
    /\ returned' = << >>
    /\ UNCHANGED <<client, envVars, msgVars, tokVars>>

-----------------------------------------------------------------------------
(* Specifications *)

\* the state after the constructor: connect() has called tryConnect
\* no request object has been made
InitNoRequest ==
    /\ request = [type |-> "none"]
    /\ call = [op |-> "none"]
    /\ threw = FALSE
    /\ returned = << >>

InitClient ==
    /\ net = "connecting"
    /\ socket = FALSE
    /\ connected = FALSE
    /\ buffer = << >>
    /\ pc = "idle"
    /\ iters = 0
    /\ outcome = "none"
    /\ prev = << >>
    /\ delivered = << >>
    /\ parsed = << >>
    /\ messageQueue = << >>
    /\ queueProcessor = FALSE
    /\ isProcessingQueue = FALSE
    /\ untilTick = 0
    /\ sinceWrite = RateLimitMs
    /\ nextId = 1
    /\ enqueuedAt = << >>
    /\ writes = << >>
    /\ pos = 0
    /\ nChunks = 0
    \* token client: connect() has set 'connecting' and made its socket
    /\ tNet = "connecting"
    /\ tSocket = FALSE
    /\ state = "connecting"
    /\ sessionToken = 0
    /\ reconnect = TRUE
    /\ reconnectTimer = "null"
    /\ queue = << >>
    /\ timer = FALSE
    /\ processing = FALSE
    /\ tBuffer = << >>
    /\ tpc = "idle"
    /\ tIters = 0
    /\ tOutcome = "none"
    /\ tPrev = << >>
    /\ events = << >>
    /\ crashed = FALSE
    /\ tWrites = << >>
    /\ nCommands = 0
    /\ nConnects = 0
    /\ connectedAt = 0

\* receive path of the message client: the peer sends one of Streams, cut
\* into chunks in every possible way
InitRx == InitClient /\ InitNoRequest /\ client = "message" /\ stream \in Streams

NextRx ==
    \/ ConnectCallback
    \/ \E n \in 1..Len(stream) : OnData(n)
    \/ HandleMessageStep

SpecRx == InitRx /\ [][NextRx]_vars

\* send path of the message client: the application queues up to MaxEnvelopes
\* requests while time passes, the peer sends one frame, the connection may
\* close
InitQueue ==
    /\ InitClient
    /\ InitNoRequest
    /\ client = "message"
    /\ stream = PeerFrame(<< >>)

NextQueue ==
    \/ ConnectCallback
    \/ ConnectFails
    \/ OnData(Len(stream) - pos)
    \/ HandleMessageStep
    \/ \E urgent \in BOOLEAN : AddToQueueCall(urgent)
    \/ \E urgent \in BOOLEAN : SendMessage(urgent)
    \/ ClearQueue
    \/ Tick
    \/ Elapse
    \/ OnClose
    \/ Disconnect

SpecQueue == InitQueue /\ [][NextQueue]_vars

\* send path and connection life cycle of the token client
NextTokenSend ==
    \/ TConnectEvent
    \/ TConnectFails
    \/ THandleClose
    \/ TReconnectFires
    \/ \E urgent \in BOOLEAN : TSendCommand(urgent)
    \/ TDrain
    \/ TDisconnect

\* send path of either client
InitQueues ==
    /\ InitClient
    /\ InitNoRequest
    /\ client \in {"message", "token"}
    /\ stream = PeerFrame(<< >>)

SpecQueues == InitQueues /\ [][NextQueue \/ NextTokenSend]_vars

\* receive path of the token client: the peer sends one of Streams, cut into
\* chunks in every possible way
InitTokenRx == InitClient /\ InitNoRequest /\ client = "token" /\ stream \in Streams

NextTokenRx ==
    \/ TConnectEvent
    \/ \E n \in 1..Len(stream) : THandleData(n)
    \/ THandleDataStep

SpecTokenRx == InitTokenRx /\ [][NextTokenRx]_vars

\* byte strings of at most n bytes
RECURSIVE ByteStrings(_)
ByteStrings(n) ==
    IF n = 0 THEN { << >> }
    ELSE LET shorter == ByteStrings(n - 1)
         IN  shorter \cup { Append(d, b) : d \in shorter, b \in {0, 90, 255} }

\* getRequest of an HCIRequest with any flags argument
InitGetRequest ==
    /\ InitClient
    /\ client = "codec"
    /\ stream = << >>
    /\ request \in { HCIRequestObject(id, data, FALSE, version, pv) :
                        id \in {0, 13, 256, 65535}, data \in ByteStrings(MaxData),
                        version \in {1, 2}, pv \in {1, 2} }
    /\ call = [op |-> "new"]
    /\ threw = FALSE
    /\ returned = << >>

NextGetRequest == \E flags \in 0..255 : GetRequestCall(flags)

SpecGetRequest == InitGetRequest /\ [][NextGetRequest]_vars

\* port numbers a caller may give: the ends of the valid range and one past it
PortValues == {0, 1023, 1024}

\* lists of at most n ports
RECURSIVE PortLists(_)
PortLists(n) ==
    IF n = 0 THEN { << >> }
    ELSE LET shorter == PortLists(n - 1)
         IN  shorter \cup { Append(l, port) : l \in shorter, port \in PortValues }

\* a caller that makes RequestCrosspointStatus objects, changes their ports
\* and queues them
InitCrosspoint ==
    /\ InitClient
    /\ InitNoRequest
    /\ client = "codec"
    /\ stream = << >>

NextCrosspoint ==
    \/ \E ports \in PortLists(MaxPorts), urgent \in BOOLEAN :
          NewCrosspointStatus(ports, urgent)
    \/ \E port \in PortValues : AddPort(port)
    \/ \E port \in PortValues : RemovePort(port)
    \/ \E ports \in PortLists(MaxPorts) : SetPorts(ports)
    \/ QueueRequest

SpecCrosspoint == InitCrosspoint /\ [][NextCrosspoint]_vars

\* actions a caller may give: three in range, two of them alike but for bit 6
\* of the conference number, one with the port and one with the conference
\* number past the range
ActionValues ==
    { [direction |-> "add", portNumber |-> 5, mode |-> "talk", conferenceNumber |-> 3],
      [direction |-> "add", portNumber |-> 5, mode |-> "talk", conferenceNumber |-> 67],
      [direction |-> "delete", portNumber |-> 1023, mode |-> "listen",
       conferenceNumber |-> 1023],
      [direction |-> "add", portNumber |-> 1024, mode |-> "talk", conferenceNumber |-> 1],
      [direction |-> "add", portNumber |-> 1, mode |-> "listen",
       conferenceNumber |-> 1024] }

\* lists of at most n actions
RECURSIVE ActionLists(_)
ActionLists(n) ==
    IF n = 0 THEN { << >> }
    ELSE LET shorter == ActionLists(n - 1)
         IN  shorter \cup { Append(l, action) : l \in shorter, action \in ActionValues }

\* a caller that makes a RequestConferenceActions object, changes its actions
\* and builds its frame
InitConference ==
    /\ InitClient
    /\ InitNoRequest
    /\ client = "codec"
    /\ stream = << >>

NextConference ==
    \/ \E actions \in ActionLists(MaxActions), urgent \in BOOLEAN :
          NewConferenceActions(actions, urgent)
    \/ \E action \in ActionValues : AddAction(action)
    \/ \E index \in 0..MaxActions : RemoveAction(index)
    \/ GetRequestCall(0)

SpecConference == InitConference /\ [][NextConference]_vars

\* entries of a crosspoint level payload as they are on the wire:
\* destination and source 0-based, level
WireEntries == { <<0, 0, 0>>, <<1023, 1023, 287>>, <<4, 2, 204>> }

\* the bytes of lists of at most n wire entries
RECURSIVE WireEntryBytes(_)
WireEntryBytes(n) ==
    IF n = 0 THEN { << >> }
    ELSE LET shorter == WireEntryBytes(n - 1)
         IN  shorter \cup { b \o UInt16BE(e[1]) \o UInt16BE(e[2]) \o UInt16BE(e[3]) :
                               b \in shorter, e \in WireEntries }

\* payloads a peer may send: a count, entries, cut anywhere
LevelPayloads ==
    { SubSeq(UInt16BE(count) \o b, 1, Min(n, 2 + Len(b))) :
          count \in 0..(MaxEntries + 1), b \in WireEntryBytes(MaxEntries),
          n \in 0..(2 + 6 * MaxEntries) }

\* parseCrosspointLevelStatusReply of any payload
InitLevelReply ==
    /\ InitClient
    /\ InitNoRequest
    /\ client = "codec"
    /\ stream = << >>

NextLevelReply == \E payload \in LevelPayloads : ParseCrosspointLevelStatusReplyCall(payload)

SpecLevelReply == InitLevelReply /\ [][NextLevelReply]_vars

\* the conversions of every level 0..287 and of every whole dB value from
\* -90 to +27, and of negative infinity
InitLevelConversion ==
    /\ InitClient
    /\ InitNoRequest
    /\ client = "codec"
    /\ stream = << >>

NextLevelConversion ==
    \/ \E level \in 0..287 : LevelToDBCall(level)
    \/ \E dB \in -90..27 : DBToLevelCall(1000 * dB)
    \/ DBToLevelCall(NegativeInfinity)

SpecLevelConversion == InitLevelConversion /\ [][NextLevelConversion]_vars

\* the login acknowledgement of the matrix: request id 0x8001 and the session
\* token
AuthFrame(token) == PeerFrame(UInt16BE(32769) \o UInt32BE(token))

\* the tokens of the first and of the second session
SessionTokens == << 16909060, 84281096 >>

\* send path, connection life cycle and login acknowledgements of the token
\* client: the matrix acknowledges up to two logins, each with a new token
InitTokenSession ==
    /\ InitClient
    /\ InitNoRequest
    /\ client = "token"
    /\ stream = AuthFrame(SessionTokens[1]) \o AuthFrame(SessionTokens[2])

NextTokenSession ==
    \/ NextTokenSend
    \/ THandleData(Len(AuthFrame(0)))
    \/ THandleDataStep

SpecTokenSession == InitTokenSession /\ [][NextTokenSession]_vars

\* Data of the requests whose frames are fed back: empty, one byte, start
\* bytes, end bytes, and the generation-2 marker with further bytes
RoundTripData ==
    { << >>, << 7 >>, << 90, 15 >>, << 46, 141, 0 >>,
      V2Signature, V2Signature \o << 1 >>, V2Signature \o << 1, 7 >> }

\* an HCIRequest of either Version is made, getRequest is called and its
\* bytes reach the message client in chunks cut anywhere
InitRoundTrip ==
    /\ InitClient
    /\ client = "message"
    /\ stream = << >>
    /\ request \in { HCIRequestObject(id, data, FALSE, version, pv) :
                        id \in {13, 65535}, data \in RoundTripData,
                        version \in {1, 2}, pv \in {1, 2} }
    /\ call = [op |-> "new"]
    /\ threw = FALSE
    /\ returned = << >>

NextRoundTrip ==
    \/ ConnectCallback
    \/ \E flags \in {0, 5} : GetRequestToClient(flags)
    \/ \E n \in 1..Len(stream) : OnData(n)
    \/ HandleMessageStep

SpecRoundTrip == InitRoundTrip /\ [][NextRoundTrip]_vars

\* crosspoint actions with ports at and beside the ends of 1..1024 and at
\* and beside the multiples of 256
CrosspointPorts == {0, 1, 255, 256, 257, 512, 768, 1023, 1024, 1025}

CrosspointActionValues ==
    [direction : {"add", "delete"}, destinationPort : CrosspointPorts,
     sourcePort : CrosspointPorts, enableDisable : {"enable"}, priority : {1, 8}]

InitCrosspointActions ==
    /\ InitClient
    /\ InitNoRequest
    /\ client = "codec"
    /\ stream = << >>

NextCrosspointActions ==
    \/ NewCrosspointActions(<< >>)
    \/ \E action \in CrosspointActionValues : NewCrosspointActions(<< action >>)

SpecCrosspointActions == InitCrosspointActions /\ [][NextCrosspointActions]_vars

\* conference status replies as the matrix sends them: header with message id
\* 0x0014 and flags 0, marker, schema byte 1, port count, conference word with
\* bit 15 set, one word per port
PortWords == { 1, 8192 + 2, 16384 + 3, 24576 + 1023 }

RECURSIVE PortWordLists(_)
PortWordLists(n) ==
    IF n = 0 THEN { << >> }
    ELSE LET shorter == PortWordLists(n - 1)
         IN  shorter \cup { Append(l, w) : l \in shorter, w \in PortWords }

ConferenceNumbers == { 0, 5, 1023 }

RECURSIVE WordBytes(_)
WordBytes(words) ==
    IF words = << >> THEN << >>
    ELSE UInt16BE(Head(words)) \o WordBytes(Tail(words))

ConferenceBody(conference, words) ==
    UInt16BE(Len(words)) \o UInt16BE(32768 + conference) \o WordBytes(words)

ConferenceStatusFrame(conference, words) ==
    PeerFrame(<< 0, 20, 0 >> \o V2Signature \o << 1 >>
                  \o ConferenceBody(conference, words))

\* the same with marker and schema byte a second time, in front of the body
ConferenceStatusFrameTagTwice(conference, words) ==
    PeerFrame(<< 0, 20, 0 >> \o V2Signature \o << 1 >> \o V2Signature \o << 1 >>
                  \o ConferenceBody(conference, words))

InitConferenceReply ==
    /\ InitClient
    /\ InitNoRequest
    /\ client = "codec"
    /\ stream = << >>

NextConferenceReply ==
    \E conference \in ConferenceNumbers, words \in PortWordLists(MaxPorts) :
        \/ ProcessMessageCall(ConferenceStatusFrame(conference, words))
        \/ ProcessMessageCall(ConferenceStatusFrameTagTwice(conference, words))

SpecConferenceReply == InitConferenceReply /\ [][NextConferenceReply]_vars

\* singleActionDB for the ports at and beside both ends of 1..1024 and every
\* whole dB value from -73 to +19, and negative infinity
OutputLevelPorts == {0, 1, 1024, 1025}

InitOutputLevel ==
    /\ InitClient
    /\ InitNoRequest
    /\ client = "codec"
    /\ stream = << >>

NextOutputLevel ==
    \E port \in OutputLevelPorts :
        \/ \E dB \in -73..19 : SingleActionDB(port, 1000 * dB)
        \/ SingleActionDB(port, NegativeInfinity)

SpecOutputLevel == InitOutputLevel /\ [][NextOutputLevel]_vars

\* crosspoint level actions a caller may give: in range, and two out of range
LevelActionValues ==
    { [destinationPort |-> d, sourcePort |-> src, levelValue |-> l] :
          d \in {1, 257, 1024}, src \in {1, 1024}, l \in {0, 256, 287} }
    \cup { [destinationPort |-> 1025, sourcePort |-> 1, levelValue |-> 0],
           [destinationPort |-> 1, sourcePort |-> 1, levelValue |-> 288] }

\* lists of at most n crosspoint level actions
RECURSIVE LevelActionLists(_)
LevelActionLists(n) ==
    IF n = 0 THEN { << >> }
    ELSE LET shorter == LevelActionLists(n - 1)
         IN  shorter \cup { Append(l, action) : l \in shorter,
                                                action \in LevelActionValues }

\* encoding a list of crosspoint level actions and parsing the payload
InitLevelRoundTrip ==
    /\ InitClient
    /\ InitNoRequest
    /\ client = "codec"
    /\ stream = << >>

NextLevelRoundTrip ==
    \E actions \in LevelActionLists(MaxEntries) : LevelActionsThenParse(actions)

SpecLevelRoundTrip == InitLevelRoundTrip /\ [][NextLevelRoundTrip]_vars

-----------------------------------------------------------------------------
(* Vocabulary of the receive-path properties *)

\* a frame as section 3 of the specification defines it
IsValidFrame(f) ==
    /\ Len(f) >= 6
    /\ SubSeq(f, 1, 2) = StartBytes
    /\ SubSeq(f, Len(f) - 1, Len(f)) = EndBytes
    /\ ReadUInt16BE(f, 2) = Len(f)

\* start bytes, a length field equal to the byte count, wrong end bytes
IsCorruptCandidate(k) ==
    /\ Len(k) >= 4
    /\ SubSeq(k, 1, 2) = StartBytes
    /\ ReadUInt16BE(k, 2) = Len(k)
    /\ SubSeq(k, Len(k) - 1, Len(k)) # EndBytes

\* the buffer starts with the start bytes and holds the bytes its length field
\* asks for, and the two bytes at the end position are not the end bytes
EndBytesWrong(b) ==
    /\ Len(b) >= 4
    /\ SubSeq(b, 1, 2) = StartBytes
    /\ Len(b) >= ReadUInt16BE(b, 2)
    /\ LET lf == ReadUInt16BE(b, 2)
       IN  ~(lf >= 2 /\ SubSeq(b, lf - 1, lf) = EndBytes)

\* nothing the loop could act on: no start bytes, no length field yet, or
\* fewer bytes than the length field says
InsufficientData(b) ==
    \/ \A i \in 1..(Len(b) - 1) : SubSeq(b, i, i + 1) # StartBytes
    \/ /\ SubSeq(b, 1, 2) = StartBytes
       /\ (Len(b) < 4 \/ Len(b) < ReadUInt16BE(b, 2))

\* s is a run of back-to-back valid frames
RECURSIVE IsFrameRun(_)
IsFrameRun(s) ==
    \/ s = << >>
    \/ /\ Len(s) >= 6
       /\ ReadUInt16BE(s, 2) \in 6..Len(s)
       /\ IsValidFrame(SubSeq(s, 1, ReadUInt16BE(s, 2)))
       /\ IsFrameRun(SubSeq(s, ReadUInt16BE(s, 2) + 1, Len(s)))

\* the frames of such a run
RECURSIVE FramesOf(_)
FramesOf(s) ==
    IF s = << >> THEN << >>
    ELSE << SubSeq(s, 1, ReadUInt16BE(s, 2)) >>
            \o FramesOf(SubSeq(s, ReadUInt16BE(s, 2) + 1, Len(s)))

RECURSIVE Flatten(_)
Flatten(ss) == IF ss = << >> THEN << >> ELSE Head(ss) \o Flatten(Tail(ss))

\* the peer has sent everything and handleMessage has returned
RxDone == pos = Len(stream) /\ pc = "idle"

-----------------------------------------------------------------------------
(* Receive-path properties of the message client, checked under SpecRx *)

\* C4: a valid frame cut into chunks in any way is passed to processMessage
\* exactly once, byte-identical, only when its last byte has arrived (so as
\* when it is fed in one call), and the buffer is empty afterwards.
SplitFrameDeliveredOnce ==
    IsValidFrame(stream) =>
        /\ pos < Len(stream) => delivered = << >>
        /\ RxDone => /\ delivered = << stream >>
                     /\ buffer = << >>

SplitFrameWitness ==
    /\ IsValidFrame(stream)
    /\ RxDone
    /\ nChunks >= 3
    /\ delivered = << stream >>

\* C5 as stated: wrong end bytes drop exactly the two start bytes, and a valid
\* frame that follows the corrupt candidate is still delivered.
BadEndThenFrameDelivered ==
    /\ (iters > 0 /\ EndBytesWrong(prev)) =>
            /\ buffer = SubSeq(prev, 3, Len(prev))
            /\ outcome = "badEnd"
    /\ \A k \in 4..(Len(stream) - 6) :
         LET K == SubSeq(stream, 1, k)
             F == SubSeq(stream, k + 1, Len(stream))
         IN  (IsCorruptCandidate(K) /\ IsValidFrame(F) /\ RxDone)
                => \E i \in 1..Len(delivered) : delivered[i] = F

\* C5 amended: ... is still delivered provided the candidate holds no start
\* bytes after its own; then the frame is the one message delivered.
BadEndDropsStartOnly ==
    /\ (iters > 0 /\ EndBytesWrong(prev)) =>
            /\ buffer = SubSeq(prev, 3, Len(prev))
            /\ outcome = "badEnd"
    /\ \A k \in 4..(Len(stream) - 6) :
         LET K == SubSeq(stream, 1, k)
             F == SubSeq(stream, k + 1, Len(stream))
         IN  (/\ IsCorruptCandidate(K)
              /\ \A i \in 3..(k - 1) : SubSeq(K, i, i + 1) # StartBytes
              /\ IsValidFrame(F)
              /\ RxDone)
                => delivered = << F >> /\ buffer = << >>

BadEndWitness ==
    /\ \E k \in 4..(Len(stream) - 6) :
          /\ IsCorruptCandidate(SubSeq(stream, 1, k))
          /\ k >= 6
          /\ delivered = << SubSeq(stream, k + 1, Len(stream)) >>
    /\ RxDone
    /\ nChunks = 1

\* C6: whatever is passed to processMessage starts with 5A 0F, ends with 2E 8D
\* and carries its own byte count in the length field; processMessage never
\* finds a length mismatch.
DeliveredFramesWhole ==
    \A i \in 1..Len(delivered) :
        /\ IsValidFrame(delivered[i])
        /\ parsed[i].kind # "lengthMismatch"

DeliveredWitness ==
    /\ Len(delivered) >= 1
    /\ ~IsFrameRun(stream)
    /\ nChunks >= 2

\* C7: handleMessage terminates: an iteration that stays in the loop has
\* strictly shortened the buffer, and the loop is left only with an empty
\* buffer or with data that is insufficient (no start bytes, fewer than 4
\* bytes, fewer bytes than the length field).
ReassemblerProgress ==
    /\ (iters > 0 /\ pc = "loop") => Len(buffer) < Len(prev)
    /\ (iters > 0 /\ pc = "idle") => buffer = << >> \/ InsufficientData(buffer)
    /\ (iters > 0 /\ Len(buffer) >= Len(prev)) =>
            /\ buffer = prev
            /\ outcome \in Breaks
    /\ iters <= pos + 1

ProgressWitness ==
    /\ iters >= 3
    /\ outcome = "badEnd"
    /\ pc = "loop"

\* C9: k back-to-back valid frames, however chunked, are processed once each in
\* wire order, and the bytes consumed are exactly those of the frames processed.
FrameRunDeliveredInOrder ==
    IsFrameRun(stream) =>
        /\ Flatten(delivered) \o buffer
              = SubSeq(stream, 1, pos)
        /\ RxDone => /\ delivered = FramesOf(stream)
                     /\ buffer = << >>

FrameRunWitness ==
    /\ IsFrameRun(stream)
    /\ Len(FramesOf(stream)) = 2
    /\ nChunks = 1
    /\ RxDone
    /\ Len(delivered) = 2

\* C10 as stated: the 14 bytes of the scenario yield exactly one decoded
\* message (messageId 0x000D, sub-schema 1, empty body) and an empty buffer.
ScenarioAsWritten ==
    (stream = Scenario /\ RxDone) =>
        /\ Len(parsed) = 1
        /\ parsed[1].messageID = 13
        /\ parsed[1].protocolVersion = 1
        /\ parsed[1].payload = << >>
        /\ buffer = << >>

\* C10 amended: with the length field 0x000E (the 14 bytes of the frame) one
\* frame reaches processMessage, which decodes messageId 0x000D, flags 08,
\* HCIv2, protocol version 1, finds no payload and returns without calling
\* handleMessageByID; the buffer is empty afterwards.  With the length field
\* 0x000B nothing is processed and 12 bytes stay buffered.
ScenarioLengthFourteen ==
    /\ (stream = ScenarioFixed /\ RxDone) =>
          /\ delivered = << ScenarioFixed >>
          /\ parsed = << [kind |-> "noPayload", messageID |-> 13, flagsByte |-> 8,
                          hciVersion |-> "HCIv2", protocolVersion |-> 1,
                          payload |-> << >>] >>
          /\ buffer = << >>
    /\ (stream = Scenario /\ RxDone) =>
          /\ delivered = << >>
          /\ buffer = SubSeq(Scenario, 3, 14)

ScenarioWitness ==
    /\ stream = ScenarioFixed
    /\ RxDone
    /\ Len(parsed) = 1

\* no normal request of q is ahead of an urgent one
UrgentFirst(q) ==
    \A i, j \in 1..Len(q) : (i < j /\ q[j].Urgent) => q[i].Urgent

\* C1: whatever requests are queued, urgent or normal, and however the
\* queueing is interleaved with ticks of the dispatcher and with clearQueue,
\* neither client's send queue holds a normal request ahead of an urgent one.
UrgentAheadOfNormal ==
    /\ UrgentFirst(messageQueue)
    /\ UrgentFirst(queue)

UrgentAheadWitness ==
    /\ Len(messageQueue) = 3
    /\ messageQueue[1].Urgent
    /\ messageQueue[2].Urgent
    /\ ~messageQueue[3].Urgent
    /\ messageQueue[3].id < messageQueue[1].id
    /\ messageQueue[1].id < messageQueue[2].id

\* the write of request id, 0 if it has not been written
WrittenAt(id) ==
    IF \E i \in 1..Len(writes) : writes[i].id = id
    THEN CHOOSE i \in 1..Len(writes) : writes[i].id = id
    ELSE 0

\* C2: requests of one urgency class are written in the order they were
\* queued; an urgent request is written before every normal request that was
\* pending together with it; normal A, urgent B, normal C queued before any
\* write are written B, A, C.
WritesUrgentThenFifo ==
    /\ \A i, j \in 1..Len(writes) :
          (i < j /\ writes[i].Urgent = writes[j].Urgent)
              => writes[i].id < writes[j].id
    /\ \A i, j \in 1..Len(writes) :
          (i < j /\ ~writes[i].Urgent /\ writes[j].Urgent)
              => enqueuedAt[writes[j].id] >= i
    /\ ( /\ Len(writes) >= 3
         /\ \A id \in 1..3 : enqueuedAt[id] = 0 /\ WrittenAt(id) \in 1..3
         /\ ~writes[WrittenAt(1)].Urgent
         /\ writes[WrittenAt(2)].Urgent
         /\ ~writes[WrittenAt(3)].Urgent )
       => <<WrittenAt(2), WrittenAt(1), WrittenAt(3)>> = <<1, 2, 3>>

WritesWitness ==
    /\ Len(writes) = 3
    /\ \A id \in 1..3 : enqueuedAt[id] = 0
    /\ writes[1] = [id |-> 2, Urgent |-> TRUE]
    /\ writes[2] = [id |-> 1, Urgent |-> FALSE]
    /\ writes[3] = [id |-> 3, Urgent |-> FALSE]

\* C3: a step takes at most one request off the queue for writing and writes
\* at most one; a write comes a full rate-limit interval after the write
\* before it, however many requests were queued in between.
OneWritePerInterval ==
    [][ /\ Len(writes') <= Len(writes) + 1
        /\ Len(writes') > Len(writes) =>
              /\ messageQueue' = Tail(messageQueue)
              /\ writes' = Append(writes, Head(messageQueue))
              /\ sinceWrite >= RateLimitMs
              /\ sinceWrite' = 0 ]_vars

OneWriteWitness ==
    /\ Len(writes) >= 2
    /\ enqueuedAt[writes[1].id] = enqueuedAt[writes[2].id]
    /\ Len(messageQueue) >= 1
    /\ sinceWrite = 0

\* C8: handleData terminates: an iteration that stays in the loop has strictly
\* shortened the buffer, one that has not is the break for lack of data, and
\* the iterations of one call are bounded by the bytes received.
TokenReassemblerProgress ==
    /\ (tIters > 0 /\ tpc = "loop") => Len(tBuffer) < Len(tPrev)
    /\ (tIters > 0 /\ Len(tBuffer) >= Len(tPrev)) =>
            /\ tBuffer = tPrev
            /\ tOutcome = "incomplete"
    /\ tIters <= pos + 1

\* C11 as stated: a buffer that holds no start bytes once the chunk is appended
\* is discarded whole: it is empty when handleMessage returns.
NoStartDiscardsBuffer ==
    (iters = 1 /\ IndexOf(prev, StartBytes) = -1) => buffer = << >>

\* C11 amended: a buffer that holds no start bytes once the chunk is appended
\* is kept whole for the next chunk: handleMessage returns at once, with the
\* buffer as it was and nothing passed to processMessage by this call.
NoStartKeepsBuffer ==
    /\ (iters = 1 /\ IndexOf(prev, StartBytes) = -1) =>
          /\ pc = "idle"
          /\ outcome = "noStart"
          /\ buffer = prev
          /\ buffer # << >>
    /\ (iters >= 1 /\ outcome = "noStart") =>
          /\ pc = "idle"
          /\ buffer = prev
          /\ IndexOf(buffer, StartBytes) = -1

NoStartWitness ==
    /\ iters = 1
    /\ pc = "idle"
    /\ outcome = "noStart"
    /\ buffer = << 90 >>
    /\ pos < Len(stream)

\* C12: a complete frame shorter than 7 bytes (5A 0F 00 06 2E 8D) is rejected
\* by the header parser of either client: no exception leaves the 'data'
\* listener and neither a handler is called nor an event emitted for it.
ShortFrameRejected ==
    /\ \A i \in 1..Len(parsed) :
          Len(delivered[i]) < 7 => parsed[i].kind = "tooShort"
    /\ \A i \in 1..Len(events) :
          events[i].len < 7 => events[i].kind \notin {"throws", "authenticated", "response"}
    /\ ~crashed

\* C13: with reconnection enabled, a connection attempt that has failed is
\* followed by a new one: once the attempt's socket is gone, the reconnect
\* timer is armed, and the client is in 'connecting' only while an attempt
\* is under way.
FailedAttemptRetried ==
    /\ (reconnect /\ tNet = "closed") => reconnectTimer = "armed"
    /\ (reconnect /\ state = "connecting") => tNet = "connecting"

\* C14: when the transport closes or fails, in whatever state, the dispatcher
\* timer is stopped and the queue holds the same requests in the same order
\* as before; a request leaves the queue only by being written or by
\* clearQueue.
CloseKeepsQueue ==
    [][ /\ (net # "closed" /\ net' = "closed") =>
              /\ ~queueProcessor'
              /\ messageQueue' = messageQueue
        /\ (tNet # "closed" /\ tNet' = "closed") =>
              /\ ~timer'
              /\ queue' = queue
        /\ Len(messageQueue') < Len(messageQueue) =>
              \/ messageQueue' = << >> /\ writes' = writes
              \/ /\ messageQueue' = Tail(messageQueue)
                 /\ writes' = Append(writes, Head(messageQueue))
        /\ Len(queue') < Len(queue) =>
              /\ queue' = Tail(queue)
              /\ tWrites' = Append(tWrites, Head(queue)) ]_vars

CloseKeepsQueueWitness ==
    /\ tNet = "closed"
    /\ state = "disconnected"
    /\ ~timer
    /\ Len(queue) >= 3
    /\ Len(tWrites) >= 1

\* C15: each time the client reaches 'connected', the first thing written on
\* that connection is the login request, ahead of every request that was in
\* the queue already or is queued later.
LoginWrittenFirst ==
    (nConnects >= 1 /\ Len(tWrites) > connectedAt)
        => tWrites[connectedAt + 1].what = "login"

\* C16: once the transport has connected, the client is connected and its
\* dispatcher runs, whether or not the peer has sent anything: getStatus()
\* is 'Connected' and the interval timer that writes the queue is set.
ConnectedOnTransportConnect ==
    (net = "open" /\ socket) =>
        /\ GetStatus = "Connected"
        /\ queueProcessor

\* C17: after disconnect() of the token client (which clears opts.reconnect)
\* the dispatch timer is not running, nothing is written to the transport,
\* the client does not become connected and no connection attempt starts,
\* also when an attempt was pending or the reconnect timer armed.
QuietAfterDisconnect ==
    [][ ~reconnect =>
            /\ ~timer'
            /\ tWrites' = tWrites
            /\ state' = "connected" => state = "connected"
            /\ tNet' = "connecting" => tNet = "connecting" ]_vars

\* C18: for an HCIRequest of Version 1 or 2, any flags argument 0..255 and
\* Data that fits, getRequest returns a frame that starts with 5A 0F, ends
\* with 2E 8D, carries its own byte count in the length field at offset 2
\* and RequestID at offsets 4..5, and whose flags byte is flags with bit 3 set.
GetRequestFrameWellFormed ==
    call.op = "getRequest" =>
        /\ ~threw
        /\ IsValidFrame(returned)
        /\ ReadUInt16BE(returned, 2) = Len(returned)
        /\ ReadUInt16BE(returned, 4) = request.RequestID
        /\ (returned[7] \div 8) % 2 = 1
        /\ BitAnd(returned[7], 247) = BitAnd(call.arg, 247)
        /\ Len(returned) = Len(request.Data) + (IF request.Version = 2 THEN 14 ELSE 9)

GetRequestWitness ==
    /\ call.op = "getRequest"
    /\ call.arg = 16
    /\ request.Version = 1
    /\ request.RequestID = 256
    /\ returned = << 90, 15, 0, 10, 1, 0, 24, 255, 46, 141 >>

\* some port of the argument of the call is 1024
Has1024(c) ==
    \/ c.op = "addPort" /\ c.arg = 1024
    \/ c.op \in {"new", "setPorts"} /\ \E i \in 1..Len(c.arg) : c.arg[i] = 1024

\* C19: the port 1024 given to the constructor, to addPort or to setPorts of
\* RequestCrosspointStatus makes the call throw, and the call leaves the
\* request's Ports and Data and the client's send queue as they were.
Port1024Rejected ==
    [][ (call'.op \in {"new", "addPort", "setPorts"} /\ Has1024(call')) =>
            /\ threw'
            /\ request' = request
            /\ messageQueue' = messageQueue
            /\ writes' = writes ]_vars

Port1024Witness ==
    /\ call = [op |-> "addPort", arg |-> 1024]
    /\ threw
    /\ request.Ports = << 0, 1023 >>
    /\ request.Data = << 0, 2, 0, 0, 3, 255 >>
    /\ Len(messageQueue) >= 1

\* C20: RequestConferenceActions checks its field ranges when it encodes: an
\* action whose portNumber or conferenceNumber is outside 0..1023, given to the
\* constructor or to addAction, makes the call throw.
ConferenceRangesEnforced ==
    call.op \in {"new", "addAction"} =>
        ( (\E i \in 1..Len(call.arg) :
              ~ValidateNumbers(call.arg[i].portNumber, call.arg[i].conferenceNumber))
          => threw )

\* C21: a payload of less than 2 bytes, or with fewer bytes after the count
\* than count * 6, makes ReplyCrosspointLevelStatus.parse return null without
\* throwing, and no onReplyCrosspointLevelStatus event is emitted.
ShortLevelPayloadIsNull ==
    call.op = "parseCrosspointLevelStatusReply" =>
        LET payload == call.arg
            short == \/ Len(payload) < 2
                     \/ ReadUInt16BE(payload, 0) * 6 > Len(payload) - 2
        IN  /\ ~threw
            /\ short => /\ returned[1].kind = "null"
                        /\ returned[2] = << >>
            /\ ~short => /\ returned[1].kind = "data"
                         /\ Len(returned[2]) = 1

ShortLevelPayloadWitness ==
    /\ call.op = "parseCrosspointLevelStatusReply"
    /\ call.arg = << 0, 2, 0, 4, 0, 2, 0, 204, 3, 255 >>
    /\ returned[1].kind = "null"
    /\ returned[2] = << >>

\* C22: for every list of actions with destinationPort and sourcePort in
\* 1..1024 and levelValue in 0..287, parse of the payload that
\* RequestCrosspointLevelActions builds returns the list's length as count and,
\* in the same order, the same destinationPort, sourcePort and levelValue.
LevelRoundTrip ==
    call.op = "newThenParse" =>
        LET actions == call.arg
            inRange == \A i \in 1..Len(actions) :
                          /\ actions[i].destinationPort \in 1..1024
                          /\ actions[i].sourcePort \in 1..1024
                          /\ actions[i].levelValue \in 0..287
        IN  inRange =>
               /\ ~threw
               /\ returned[1].kind = "data"
               /\ returned[1].count = Len(actions)
               /\ Len(returned[1].levelData) = Len(actions)
               /\ \A i \in 1..Len(actions) :
                     /\ returned[1].levelData[i].destinationPort = actions[i].destinationPort
                     /\ returned[1].levelData[i].sourcePort = actions[i].sourcePort
                     /\ returned[1].levelData[i].levelValue = actions[i].levelValue

LevelRoundTripWitness ==
    /\ call.op = "newThenParse"
    /\ call.arg = << [destinationPort |-> 1024, sourcePort |-> 1, levelValue |-> 287],
                     [destinationPort |-> 257, sourcePort |-> 1024, levelValue |-> 0] >>
    /\ request.Data = << 0, 2, 3, 255, 0, 0, 1, 31, 1, 0, 3, 255, 0, 0 >>
    /\ returned[1].count = 2

\* C23: levelToDB(204) is 0 dB and dBToLevel(0) is 204; levelToDB(0) is
\* negative infinity and dBToLevel(negative infinity) is 0.
LevelAnchors ==
    /\ (call.op = "levelToDB" /\ call.arg = 204) => returned = << 0 >>
    /\ (call.op = "dBToLevel" /\ call.arg = 0) => returned = << 204 >>
    /\ (call.op = "levelToDB" /\ call.arg = 0) => returned = << NegativeInfinity >>
    /\ (call.op = "dBToLevel" /\ call.arg = NegativeInfinity) => returned = << 0 >>

\* C24: for every dB value from -72 to +18 and every port 1..1024,
\* singleActionDB(port, dB) returns a request without throwing.
OutputLevelRangeAccepted ==
    (/\ call.op = "singleActionDB"
     /\ call.arg[1] \in 1..1024
     /\ call.arg[2] >= -72000 /\ call.arg[2] <= 18000)
        => (~ threw /\ request.type = "RequestOutputLevelActions")

\* the ports a conference status reply with these port words stands for
RECURSIVE DecodedPorts(_)
DecodedPorts(words) ==
    IF words = << >> THEN << >>
    ELSE << [portNumber |-> Head(words) % 8192,
             isListener |-> (Head(words) \div 8192) % 2 = 1,
             isTalker |-> (Head(words) \div 16384) % 2 = 1] >>
         \o DecodedPorts(Tail(words))

\* C25: a well-formed generation-2 frame with message id 0x0014 (header,
\* marker, sub-schema byte, then port count, conference word and the port
\* words) causes exactly one conferenceStatus event with the decoded
\* conference number and ports.
ConferenceFrameEmitsOnce ==
    \A conference \in ConferenceNumbers, words \in PortWordLists(MaxPorts) :
        (/\ call.op = "processMessage"
         /\ call.arg = ConferenceStatusFrame(conference, words))
            => /\ Len(returned) = 1
               /\ returned[1].event = "conferenceStatus"
               /\ returned[1].data.conferenceNumber = conference
               /\ returned[1].data.ports = DecodedPorts(words)

\* C26: for every crosspoint action with both ports in 1..1024, word 0 bits
\* 1-2 with word 1 bits 0-7 are destinationPort - 1, and word 0 bits 11-12
\* with word 1 bits 8-15 are sourcePort - 1.
CrosspointPortsEncoded ==
    (/\ request.type = "RequestCrosspointActions"
     /\ Len(request.Actions) = 1)
        => LET word0 == ReadUInt16BE(request.Data, 4)
               word1 == ReadUInt16BE(request.Data, 6)
           IN  /\ ((word0 \div 2) % 4) * 256 + (word1 % 256)
                      = request.Actions[1].destinationPort - 1
               /\ ((word0 \div 2048) % 4) * 256 + (word1 \div 256)
                      = request.Actions[1].sourcePort - 1

\* the outcome of processMessage is a call of handleMessageByID for this
\* request: message id, G flag and payload
HandledAs(processed, req) ==
    /\ processed.kind = "handled"
    /\ processed.messageID = req.RequestID
    /\ BitAnd(processed.flagsByte, 8) = 8
    /\ processed.payload = req.Data

\* the generation found for this request's frame
GenerationOf(processed, req) ==
    /\ req.Version = 2 =>
           /\ processed.hciVersion = "HCIv2"
           /\ processed.protocolVersion = req.ProtocolVersion
    /\ (req.Version = 1 /\ SubSeq(req.Data, 1, Min(4, Len(req.Data))) # V2Signature) =>
           /\ processed.hciVersion = "HCIv1"
           /\ processed.protocolVersion = -1

\* C27 as stated: for every HCIRequest with non-empty Data, the bytes of
\* getRequest() fed to handleMessage lead to exactly one handleMessageByID
\* call with the request's id, the G flag and a payload identical to Data;
\* Version 2 is found as HCIv2 with the ProtocolVersion, Version 1 with Data
\* not starting with the marker as HCIv1 without sub-schema.
FrameRoundTripAnyData ==
    (call.op = "getRequest" /\ request.Data # << >> /\ pos > 0 /\ RxDone) =>
        /\ Len(parsed) = 1
        /\ HandledAs(parsed[1], request)
        /\ GenerationOf(parsed[1], request)

\* C27, amended: the same for every request of Version 2, and for every
\* request of Version 1 whose Data does not start with the marker AB BA CE DE.
FrameRoundTrip ==
    (/\ call.op = "getRequest" /\ request.Data # << >> /\ pos > 0 /\ RxDone
     /\ \/ request.Version = 2
        \/ /\ request.Version = 1
           /\ SubSeq(request.Data, 1, Min(4, Len(request.Data))) # V2Signature) =>
        /\ Len(parsed) = 1
        /\ HandledAs(parsed[1], request)
        /\ GenerationOf(parsed[1], request)

FrameRoundTripWitness ==
    /\ call.op = "getRequest" /\ request.Data # << >> /\ pos > 0 /\ RxDone
    /\ nChunks >= 2
    /\ request.Version = 1
    /\ Len(parsed) = 1
    /\ parsed[1].payload = request.Data
    /\ parsed[1].hciVersion = "HCIv1"

\* the 8-byte record (words 0 to 3) of the i-th action in a conference
\* actions payload: after tag, schema, count and the action type
ActionRecord(data, i) == Subarray(data, 9 + 10 * (i - 1), 17 + 10 * (i - 1))

\* C28: two actions that differ in conferenceNumber or in portNumber (all in
\* 0..1023) never produce the same 8-byte action record.
ConferenceEncodingInjective ==
    (/\ request.type = "RequestConferenceActions"
     /\ Len(request.Actions) = 2
     /\ \A i \in 1..2 : ValidateNumbers(request.Actions[i].portNumber,
                                        request.Actions[i].conferenceNumber)
     /\ \/ request.Actions[1].conferenceNumber # request.Actions[2].conferenceNumber
        \/ request.Actions[1].portNumber # request.Actions[2].portNumber)
        => ActionRecord(request.Data, 1) # ActionRecord(request.Data, 2)

\* the frame a command with this token should be on the wire: start, length,
\* request id, token, data, end
CommandFrame(token) ==
    LET body == UInt16BE(SentCommand.id) \o UInt32BE(token) \o SentCommand.data
    IN  StartBytes \o UInt16BE(Len(body) + 6) \o body \o EndBytes

\* C29: each sendCommand results in exactly one well-formed frame written:
\* START, a length field equal to the number of bytes written, the request id
\* at bytes 4..5, the session token, data, END, with no second start marker
\* or length field inside.
CommandFrameWellFormed ==
    /\ \A i \in 1..Len(tWrites) :
          tWrites[i].what = "command" =>
              LET bytes == RequestBytes(tWrites[i])
              IN  /\ ReadUInt16BE(bytes, 2) = Len(bytes)
                  /\ ReadUInt16BE(bytes, 4) = SentCommand.id
                  /\ bytes = CommandFrame(tWrites[i].token)
    /\ Len(SelectSeq(tWrites, LAMBDA w : w.what = "command"))
         + Len(SelectSeq(queue, LAMBDA w : w.what = "command")) = nCommands

\* the token field of the packet sendCommand built for a request
TokenField(req) == ReadUInt32BE(PacketOf(req), 6)

\* C30: every command frame written while the client is authenticated carries
\* the session token of the current session, never 0 or an earlier session's
\* token.
CommandCarriesCurrentToken ==
    [][(/\ Len(tWrites') = Len(tWrites) + 1
        /\ state = "authenticated"
        /\ tWrites'[Len(tWrites')].what = "command")
          => /\ TokenField(tWrites'[Len(tWrites')]) = sessionToken
             /\ TokenField(tWrites'[Len(tWrites')]) # 0]_vars

=============================================================================
